---- MODULE Spec2Model ----
(***************************************************************************)
(* Model of the pipeline execution core of call_iq:                        *)
(*   - SubprocessPool.run   (src/src/subprocess_pool.py)                    *)
(*   - SSHDownloader        (src/ssh_downloader.py)                         *)
(* Each component has its own specification (SpecPool, SpecTransfer); the  *)
(* variables of the other component stay at their initial values.          *)
(***************************************************************************)
EXTENDS Integers, Sequences, FiniteSets, TLC

(***************************************************************************)
(* Bounds of the model                                                     *)
(***************************************************************************)
MaxJobs == 3

MaxWorkers == 2

MaxFiles == 2

FileLen == 2

PipeCap == 1

MaxRuns == 2

\* segments in one call of merge_segments, the largest timestamp, and the
\* largest finite gap threshold
MaxSegs == 3

MaxTime == 2

MaxGap == 1

\* call directories in one run of postprocess_transcripts and segments in
\* one channel's transcript
MaxCalls == 2

MaxChanSegs == 2

\* recordings under input_root in one run of the pipeline
MaxRecs == 1

(***************************************************************************)
(* ======================  SubprocessPool  ==============================  *)
(***************************************************************************)
VARIABLES
  cmds,          \* run(): cmds = list(commands)
  workers_arg,   \* the max_workers argument given to __init__
  max_workers,   \* self.max_workers
  capture,       \* self.capture_stdout or self.capture_stderr
  i,             \* run(): number of commands taken from cmds so far
  cmd,           \* run(): the local cmd of the fill loop
  proc,          \* run(): the local proc of the fill loop (0: none)
  running,       \* run(): dict Popen -> cmd, in insertion order
  finished_proc, \* run(): finished_proc (0: None)
  scan_k,        \* run(): position of the for loop over list(running.keys())
  results,       \* run(): list of ProcResult
  pbar_n,        \* pbar.n, the progress counter
  exc,           \* TRUE when an exception is propagating out of the try block
  pool_pc,       \* position of run()
  procs,         \* the operating system's process table, by Popen identity
  hist           \* history of start / exit / reap events (verification only)

poolVars == <<cmds, workers_arg, max_workers, capture, i, cmd, proc, running,
              finished_proc, scan_k, results, pbar_n, exc, pool_pc, procs, hist>>

(***************************************************************************)
(* ======================  SSHDownloader  ===============================  *)
(***************************************************************************)
VARIABLES
  remote,         \* the relative paths of the files under remote_dir
  dest,           \* the files under local_dir: path -> content
  staging,        \* the files under local_temp_dir: path -> content
  temp_exists,    \* local_temp_dir exists
  xfer_pc,        \* position of the run: __init__, download() and its callees
  queue_paths_rel,\* prepare_transfer(): the manifest, in sorted order
  total_size,     \* prepare_transfer(): the byte total shown by the progress bar
  prod_st,        \* remote_prod: "none", "running", "exited", "failed", "killed"
  prod_pos,       \* number of chunks of the archive read from remote_prod.stdout
  cons_st,        \* local_cons: "none", "running", "exited", "failed"
  cons_got,       \* number of chunks local_cons has extracted
  pipe,           \* chunks written to local_cons.stdin and not yet extracted
  stdin_closed,   \* local_cons.stdin.close() was called
  buf,            \* the chunk in buf after readinto (<<>>: none)
  pbar_bytes,     \* pbar.n of the download progress bar, in chunks
  moved,          \* finalize_transfer(): moved
  skipped,        \* finalize_transfer(): skipped
  visited,        \* finalize_transfer(): staged files the walk has yielded
  runs,           \* number of runs started (verification only)
  dest0,          \* dest when the run began (verification only)
  n_listings,     \* remote find commands issued by the run (verification only)
  n_size_queries, \* remote wc commands issued by the run (verification only)
  last_ok,        \* the last download() completed and the remote tree is
                  \* unchanged since (verification only)
  prev_ok,        \* last_ok as it was when the run began (verification only)
  last_rc,        \* exit status of the run's last remote find / wc command
  stale_staged,   \* the files __init__ found staged by an earlier run
                  \* (verification only)
  transfer_error  \* the RuntimeError transfer() raised: NoError, or the exit
                  \* status and the captured stderr its message carries

xferVars == <<remote, dest, staging, temp_exists, xfer_pc, queue_paths_rel,
              total_size, prod_st, prod_pos, cons_st, cons_got, pipe,
              stdin_closed, buf, pbar_bytes, moved, skipped, visited, runs,
              dest0, n_listings, n_size_queries, last_ok, prev_ok, last_rc,
              stale_staged, transfer_error>>

NoError == [rc |-> 0, stderr |-> "none"]

EmptyTree == [q \in {} |-> <<>>]

(***************************************************************************)
(* WhisperTranscribe.merge_segments (src/src/whisper_transcribe.py)        *)
(***************************************************************************)
VARIABLES
  segments,         \* the argument segments: a list of transcript segments
  gap_threshold_s,  \* the argument gap_threshold_s
  merged,           \* the list merge_segments returned
  merge_pc          \* "idle", "call", "returned" or "raised"

textVars == <<segments, gap_threshold_s, merged, merge_pc>>

MergeIdle ==
  /\ segments = <<>>
  /\ gap_threshold_s = 0
  /\ merged = <<>>
  /\ merge_pc = "idle"

(***************************************************************************)
(* WhisperTranscribe.postprocess_transcripts                               *)
(***************************************************************************)
VARIABLES
  overwrite,        \* self.overwrite
  merge_segments_s, \* self.merge_segments_s: None or a gap threshold
  n_calls,          \* the number of call directories under output_root
  post_i,           \* the call directories the loop has been through
  call,             \* the files of the last of them, as the loop found them
  conversation,     \* the conversation.json written for it, if any
  out_txt,          \* the conversation.txt written for it, if any
  written,          \* the calls whose outputs are in the list written
  post_pc           \* "idle", "loop", "done" or "raised"

postVars == <<overwrite, merge_segments_s, n_calls, post_i, call,
              conversation, out_txt, written, post_pc>>

\* no call directory read yet
NoCall == [st |-> "none"]

\* no conversation written
NoConversation == [st |-> "none"]

PostIdle ==
  /\ overwrite = FALSE
  /\ merge_segments_s = 0
  /\ n_calls = 0
  /\ post_i = 0
  /\ call = NoCall
  /\ conversation = NoConversation
  /\ out_txt = <<>>
  /\ written = <<>>
  /\ post_pc = "idle"

(***************************************************************************)
(* WhisperTranscribe.run: channel split, transcription, merge              *)
(***************************************************************************)
VARIABLES
  kwargs,          \* the keyword names WhisperTranscribe(...) is called with
  force,           \* the force flags of the configuration main() reads
  prior,           \* the outputs each recording had before the run
  wav,             \* customer.wav and store.wav of each recording
  transcript,      \* customer.json and store.json of each recording
  timestamp_file,  \* timestamp.json of each recording
  conv,            \* conversation.json and .txt of each recording
  commands,        \* the recordings build_commands made a command for
  split_left,      \* those whose command the pool has not run yet
  fut,             \* the future of each channel file of transcribe_outputs
  failed,          \* the list failed of transcribe_outputs
  pbar_t,          \* the progress count of transcribe_outputs
  merge_k,         \* the call directories the merge loop has been through
  split_n,         \* split commands run per recording (verification only)
  tr_n,            \* transcriptions run per channel file (verification only)
  merge_n,         \* conversations written per recording (verification only)
  pipe_pc,         \* the position of the run
  pipeline_obj,    \* self._pipeline: "none" or "loaded"
  n_init,          \* pipelines constructed by the instance (verification only)
  checked_by,      \* the threads that tested self._pipeline is None
                   \* (verification only)
  pipe_runs,       \* runs of the pipeline so far (verification only)
  ever_forced      \* one of them had overwrite set (verification only)

pipeVars == <<kwargs, force, prior, wav, transcript, timestamp_file, conv,
              commands, split_left, fut, failed, pbar_t, merge_k, split_n,
              tr_n, merge_n, pipe_pc, pipeline_obj, n_init, checked_by,
              pipe_runs, ever_forced>>

PipeIdle ==
  /\ kwargs = {}
  /\ force = <<>>
  /\ prior = <<>>
  /\ wav = <<>>
  /\ transcript = <<>>
  /\ timestamp_file = <<>>
  /\ conv = <<>>
  /\ commands = {}
  /\ split_left = {}
  /\ fut = <<>>
  /\ failed = <<>>
  /\ pbar_t = 0
  /\ merge_k = 0
  /\ split_n = <<>>
  /\ tr_n = <<>>
  /\ merge_n = <<>>
  /\ pipe_pc = "idle"
  /\ pipeline_obj = "none"
  /\ n_init = 0
  /\ checked_by = {}
  /\ pipe_runs = 0
  /\ ever_forced = FALSE

\* the transfer engine before any run, with nothing on either side
XferIdle ==
  /\ remote = {}
  /\ dest = EmptyTree
  /\ staging = EmptyTree
  /\ temp_exists = FALSE
  /\ xfer_pc = "idle"
  /\ queue_paths_rel = <<>>
  /\ total_size = 0
  /\ prod_st = "none"
  /\ prod_pos = 0
  /\ cons_st = "none"
  /\ cons_got = 0
  /\ pipe = <<>>
  /\ stdin_closed = FALSE
  /\ buf = <<>>
  /\ pbar_bytes = 0
  /\ moved = 0
  /\ skipped = 0
  /\ visited = {}
  /\ runs = 0
  /\ dest0 = EmptyTree
  /\ n_listings = 0
  /\ n_size_queries = 0
  /\ last_ok = FALSE
  /\ prev_ok = FALSE
  /\ last_rc = 0
  /\ stale_staged = {}
  /\ transfer_error = NoError

\* The commands of the model: /bin/true exits 0, /bin/false exits 1.
Cmds == {"true", "false"}

\* Commands that need not terminate: "hang" never does; "verbose" writes
\* more than a pipe holds and exits with 0 once all of it was taken.
LiveCmds == {"true", "hang", "verbose"}

\* Exit status of a command run on its own.
IsolatedRc(c) == IF c \in {"true", "verbose"} THEN 0 ELSE 1

TerminatesWhenDrained(c, piped) == c # "hang"

\* start, lines 53-58, and lines 72-87: a captured stream is a pipe that
\* run() reads only after poll() gave a status; a process that fills the
\* pipe waits in its write
Terminates(c, piped) == c # "hang" /\ (c = "verbose" => ~piped)

\* Popen.poll() of a process that has not terminated returns None.
None == 99

\* Exit status of a process ended by SIGKILL, as Popen reports it.
KilledRc == -9

Procs == 1..MaxJobs

NoProc == [st |-> "none", cmd |-> "true", rc |-> None]

Max(a, b) == IF a >= b THEN a ELSE b

ClampWorkersFloorTwo(n) == Max(2, n)

\* __init__: self.max_workers = max(1, int(max_workers))
ClampWorkers(n) == Max(1, n)

RunningProcs == {running[k].proc : k \in 1..Len(running)}

CanStartOffByOne == i < Len(cmds) /\ Len(running) <= max_workers

\* the condition of the fill loop
CanStart == i < Len(cmds) /\ Len(running) < max_workers

LoopCondPendingOnly == i < Len(cmds)

\* line 62: the condition of the outer loop
LoopCond == i < Len(cmds) \/ Len(running) > 0

\* proc.poll()
Poll(p) == IF procs[p].st \in {"exited", "killed"} THEN procs[p].rc ELSE None

DictKept(d, p) == d

\* running.pop(finished_proc): the dict without the key, and the value
DictWithout(d, p) == SelectSeq(d, LAMBDA e : e.proc # p)

DictGet(d, p) == (CHOOSE k \in 1..Len(d) : d[k].proc = p)

PoppedCmdLast(d, p) == d[Len(d)].cmd

PoppedCmd(d, p) == d[DictGet(d, p)].cmd

ResultRcZero(rc) == 0

\* ProcResult(rc = rc if rc is not None else 0)
ResultRc(rc) == IF rc # None THEN rc ELSE 0

ScanOrderReversed(n) == [k \in 1..n |-> n + 1 - k]

LeftRunning(pr) == pr

\* lines 98-102: proc.kill()
Killed(pr) == [pr EXCEPT !.st = "killed", !.rc = KilledRc]

ScanEndsAtFirst(k, n) == TRUE

\* lines 72-75: the for loop ends after the last key of running
ScanEnds(k, n) == k = n

\* for proc in list(running.keys()): insertion order
ScanOrder(n) == [k \in 1..n |-> k]

PoolInit ==
  /\ MergeIdle
  /\ PostIdle
  /\ PipeIdle
  /\ cmds \in UNION {[1..n -> Cmds] : n \in 0..MaxJobs}
  /\ workers_arg \in -1..MaxWorkers
  /\ max_workers = ClampWorkers(workers_arg)
  /\ capture = TRUE
  /\ i = 0
  /\ cmd = "true"
  /\ proc = 0
  /\ running = <<>>
  /\ finished_proc = 0
  /\ scan_k = 0
  /\ results = <<>>
  /\ pbar_n = 0
  /\ exc = FALSE
  /\ pool_pc = "loop"
  /\ procs = [p \in Procs |-> NoProc]
  /\ hist = <<>>
  /\ XferIdle

\* line 62: while i < len(cmds) or running
PoolLoop ==
  /\ pool_pc = "loop"
  /\ pool_pc' = IF LoopCond THEN "fill" ELSE "finally"
  /\ UNCHANGED <<xferVars, textVars, postVars, pipeVars>>
  /\ UNCHANGED <<cmds, workers_arg, max_workers, capture, i, cmd, proc, running,
                 finished_proc, scan_k, results, pbar_n, exc, procs, hist>>

\* lines 64-66: the fill loop takes the next command, or falls through to the scan
PoolFill ==
  /\ pool_pc = "fill"
  /\ IF CanStart
       THEN /\ cmd' = cmds[i + 1]
            /\ i' = i + 1
            /\ pool_pc' = "start"
            /\ UNCHANGED <<finished_proc, scan_k>>
       ELSE /\ finished_proc' = 0
            /\ scan_k' = 1
            /\ pool_pc' = IF Len(running) = 0 THEN "sleep" ELSE "scan"
            /\ UNCHANGED <<cmd, i>>
  /\ UNCHANGED <<xferVars, textVars, postVars, pipeVars>>
  /\ UNCHANGED <<cmds, workers_arg, max_workers, capture, proc, running, results,
                 pbar_n, exc, procs, hist>>

\* line 67: proc = start(cmd); the child process exists from here on
PoolStart ==
  /\ pool_pc = "start"
  /\ proc' = i
  /\ procs' = [procs EXCEPT ![i] = [st |-> "running", cmd |-> cmd, rc |-> None]]
  /\ hist' = Append(hist, <<"start", i>>)
  /\ pool_pc' = "started"
  /\ UNCHANGED <<xferVars, textVars, postVars, pipeVars>>
  /\ UNCHANGED <<cmds, workers_arg, max_workers, capture, i, cmd, running,
                 finished_proc, scan_k, results, pbar_n, exc>>

\* line 67: start(cmd) raises (no such executable, fork fails): there is
\* no child process, and the exception goes to the finally clause
PoolStartFails ==
  /\ pool_pc = "start"
  /\ exc' = TRUE
  /\ hist' = Append(hist, <<"launch_failed", i>>)
  /\ pool_pc' = "finally"
  /\ UNCHANGED <<xferVars, textVars, postVars, pipeVars>>
  /\ UNCHANGED <<cmds, workers_arg, max_workers, capture, i, cmd, proc,
                 running, finished_proc, scan_k, results, pbar_n, procs>>

\* line 68: running[proc] = cmd
PoolInsert ==
  /\ pool_pc = "started"
  /\ running' = Append(running, [proc |-> proc, cmd |-> cmd])
  /\ proc' = 0
  /\ pool_pc' = "fill"
  /\ UNCHANGED <<xferVars, textVars, postVars, pipeVars>>
  /\ UNCHANGED <<cmds, workers_arg, max_workers, capture, i, cmd, finished_proc,
                 scan_k, results, pbar_n, exc, procs, hist>>

\* lines 72-75: one proc.poll() of the scan
PoolPoll ==
  /\ pool_pc = "scan"
  /\ LET p == running[ScanOrder(Len(running))[scan_k]].proc IN
       IF Poll(p) # None
         THEN /\ finished_proc' = p
              /\ pool_pc' = "reap"
              /\ UNCHANGED scan_k
         ELSE /\ scan_k' = scan_k + 1
              /\ pool_pc' = IF ScanEnds(scan_k, Len(running))
                              THEN "sleep" ELSE "scan"
              /\ UNCHANGED finished_proc
  /\ UNCHANGED <<xferVars, textVars, postVars, pipeVars>>
  /\ UNCHANGED <<cmds, workers_arg, max_workers, capture, i, cmd, proc, running,
                 results, pbar_n, exc, procs, hist>>

\* lines 78-80: nothing finished: time.sleep(0.1); continue
PoolSleep ==
  /\ pool_pc = "sleep"
  /\ pool_pc' = "loop"
  /\ UNCHANGED <<xferVars, textVars, postVars, pipeVars>>
  /\ UNCHANGED <<cmds, workers_arg, max_workers, capture, i, cmd, proc, running,
                 finished_proc, scan_k, results, pbar_n, exc, procs, hist>>

\* lines 82-91: reap finished_proc
PoolReap ==
  /\ pool_pc = "reap"
  /\ LET rc == Poll(finished_proc) IN
       /\ results' = Append(results,
                            [cmd |-> PoppedCmd(running, finished_proc),
                             rc |-> ResultRc(rc)])
       /\ running' = DictWithout(running, finished_proc)
  /\ pbar_n' = pbar_n + 1
  /\ hist' = Append(hist, <<"reap", finished_proc>>)
  /\ pool_pc' = "loop"
  /\ UNCHANGED <<xferVars, textVars, postVars, pipeVars>>
  /\ UNCHANGED <<cmds, workers_arg, max_workers, capture, i, cmd, proc, finished_proc,
                 scan_k, exc, procs>>

TryBlock == {"loop", "fill", "start", "started", "scan", "sleep", "reap"}

\* an exception raised inside the try block (KeyboardInterrupt, a failing
\* read of a captured stream, ...): control goes to the finally clause
PoolInterrupt ==
  /\ pool_pc \in TryBlock
  /\ exc' = TRUE
  /\ pool_pc' = "finally"
  /\ UNCHANGED <<xferVars, textVars, postVars, pipeVars>>
  /\ UNCHANGED <<cmds, workers_arg, max_workers, capture, i, cmd, proc, running,
                 finished_proc, scan_k, results, pbar_n, procs, hist>>

\* lines 93-104: finally: kill everything in running, then return or re-raise
PoolFinally ==
  /\ pool_pc = "finally"
  /\ procs' = [p \in Procs |->
                 IF p \in RunningProcs /\ procs[p].st = "running"
                   THEN Killed(procs[p])
                   ELSE procs[p]]
  /\ pool_pc' = IF exc THEN "raised" ELSE "done"
  /\ UNCHANGED <<xferVars, textVars, postVars, pipeVars>>
  /\ UNCHANGED <<cmds, workers_arg, max_workers, capture, i, cmd, proc, running,
                 finished_proc, scan_k, results, pbar_n, exc, hist>>

\* the operating system: a running child process terminates by itself
ProcExit(p) ==
  /\ procs[p].st = "running"
  /\ Terminates(procs[p].cmd, capture)
  /\ procs' = [procs EXCEPT ![p].st = "exited", ![p].rc = IsolatedRc(procs[p].cmd)]
  /\ hist' = Append(hist, <<"exit", p>>)
  /\ UNCHANGED <<xferVars, textVars, postVars, pipeVars>>
  /\ UNCHANGED <<cmds, workers_arg, max_workers, capture, i, cmd, proc, running,
                 finished_proc, scan_k, results, pbar_n, exc, pool_pc>>

PoolNext ==
  \/ PoolLoop
  \/ PoolFill
  \/ PoolStart
  \/ PoolStartFails
  \/ PoolInsert
  \/ PoolPoll
  \/ PoolSleep
  \/ PoolReap
  \/ PoolInterrupt
  \/ PoolFinally
  \/ \E p \in Procs : ProcExit(p)

vars == <<poolVars, xferVars, textVars, postVars, pipeVars>>

SpecPool == PoolInit /\ [][PoolNext]_vars

(***************************************************************************)
(* SSHDownloader: files, archives and the operations                       *)
(***************************************************************************)
\* the batch size of the size queries (chunked(queue_paths_abs, 250))
SizeBatch == 250

Paths == 1..MaxFiles

\* the k-th block of bytes of the remote file p
Chunk(p, k) == p * 10 + k

\* the content of the remote file p
RemoteData(p) == [k \in 1..FileLen |-> Chunk(p, k)]

\* the content of a local file that is no copy of a remote file
Sentinel == <<0>>

With(tree, p, data) ==
  [q \in (DOMAIN tree) \cup {p} |-> IF q = p THEN data ELSE tree[q]]

Without(tree, p) == [q \in (DOMAIN tree) \ {p} |-> tree[q]]

\* sorted(...) of a set of paths
SortSet(S) ==
  CHOOSE f \in [1..Cardinality(S) -> S] :
    \A a, b \in 1..Cardinality(S) : a < b => f[a] < f[b]

PathExistsSameContent(tree, p) == p \in DOMAIN tree /\ tree[p] = RemoteData(p)

\* lp.exists(), dst.exists()
PathExists(tree, p) == p \in DOMAIN tree

DstExistsNever(tree, p) == FALSE

\* finalize_transfer, line 164: dst.exists()
DstExists(tree, p) == PathExists(tree, p)

MissingByContent(listing, local) ==
  {p \in listing : ~PathExistsSameContent(local, p)}

\* prepare_transfer, lines 77-82: the listed files with no local counterpart
Missing(listing, local) == {p \in listing : ~PathExists(local, p)}

\* number of find_transfer_size calls: one per chunk of chunked(queue, 250)
NumBatches(n) == (n + SizeBatch - 1) \div SizeBatch

NothingToDoNever(q) == FALSE

\* download, line 177: if not queue_paths_rel
NothingToDo(q) == Len(q) = 0

\* the archive the producer writes for a manifest: the chunks <<path, k>>
Stream(m) ==
  [n \in 1..(Len(m) * FileLen) |->
     <<m[((n - 1) \div FileLen) + 1], ((n - 1) % FileLen) + 1>>]

\* tar -xf: the first chunk of a file creates it, the others extend it
Extracted(tree, c) ==
  IF c[2] = 1
    THEN With(tree, c[1], <<Chunk(c[1], 1)>>)
    ELSE With(tree, c[1], Append(tree[c[1]], Chunk(c[1], c[2])))

\* Popen.wait() of a process that has ended
WaitRc(st) == IF st = "exited" THEN 0 ELSE IF st = "killed" THEN KilledRc ELSE 1

TransferFailedRemoteOnly(remote_rc, local_rc) == remote_rc # 0

TransferFailedLocalOnly(remote_rc, local_rc) == local_rc # 0

\* transfer, lines 142-145: either non-zero status raises RuntimeError
TransferFailed(remote_rc, local_rc) == remote_rc # 0 \/ local_rc # 0

RaisedErrorLocalText(remote_rc, local_rc) ==
  IF remote_rc # 0 THEN [rc |-> remote_rc, stderr |-> "local_err"]
  ELSE IF local_rc # 0 THEN [rc |-> local_rc, stderr |-> "local_err"]
  ELSE NoError

\* transfer, lines 139-145: the message of the RuntimeError: the status and
\* the captured stderr of the remote side when that one failed, of the
\* local side otherwise
RaisedError(remote_rc, local_rc) ==
  IF remote_rc # 0 THEN [rc |-> remote_rc, stderr |-> "remote_err"]
  ELSE IF local_rc # 0 THEN [rc |-> local_rc, stderr |-> "local_err"]
  ELSE NoError

WriteDropsChunk(p, chunk) == p

\* transfer, line 122: local_cons.stdin.write(mv[:n]) hands the n bytes
\* that were read to the consumer's input, after those written before
WriteAll(p, chunk) == Append(p, chunk)

NotKilled(st) == st

\* transfer, line 125: remote_prod.kill()
Kill(st) == IF st = "running" THEN "killed" ELSE st

StdinLeftOpen(closed) == closed

\* transfer, lines 129-134: local_cons.stdin.close(); the descriptor is
\* closed also when the flush in close() raises, and that is passed over
CloseStdin(closed) == TRUE

\* exit status of ssh when the connection fails
SshFailRc == 255

\* exit status of wc when one of its files cannot be opened
WcMissingRc == 1

CheckOutputNeverRaises(rc) == FALSE

\* subprocess.check_output raises CalledProcessError on a non-zero status
CheckOutputRaises(rc) == rc # 0

\* exit status of the remote wc -c over the queued paths
WcRc(paths, listing) == IF paths \subseteq listing THEN 0 ELSE WcMissingRc

\* find_transfer_size, lines 54-67: the sum of the counts wc printed, one
\* line per file it could open, the "total" line left out
WcTotal(paths, listing) == FileLen * Cardinality(paths \cap listing)

\* the manifest's files that are on the remote host when tar reads them
Archived(m, listing) == SelectSeq(m, LAMBDA p : p \in listing)

KeepTree(tree) == tree

\* rmtree(self.local_temp_dir, ignore_errors=True)
RmTree(tree) == EmptyTree

Between == {"idle", "done", "failed", "finalize_failed"}

\* the pool when it is not in use
PoolIdle ==
  /\ cmds = <<>>
  /\ workers_arg = 1
  /\ capture = FALSE
  /\ max_workers = 1
  /\ i = 0
  /\ cmd = "true"
  /\ proc = 0
  /\ running = <<>>
  /\ finished_proc = 0
  /\ scan_k = 0
  /\ results = <<>>
  /\ pbar_n = 0
  /\ exc = FALSE
  /\ pool_pc = "idle"
  /\ procs = [p \in Procs |-> NoProc]
  /\ hist = <<>>

\* the local trees a run can find: each path absent, or present with a
\* content of its own, or with a truncated remote content
LocalTrees ==
  UNION {[D -> {1, 2}] : D \in SUBSET Paths}

LocalContent(p, v) == IF v = 1 THEN Sentinel ELSE <<Chunk(p, 1)>>

TransferInit ==
  /\ PoolIdle
  /\ MergeIdle
  /\ PostIdle
  /\ PipeIdle
  /\ remote \in SUBSET Paths
  /\ \E t \in LocalTrees : dest = [p \in DOMAIN t |-> LocalContent(p, t[p])]
  /\ staging = EmptyTree
  /\ temp_exists = FALSE
  /\ xfer_pc = "idle"
  /\ queue_paths_rel = <<>>
  /\ total_size = 0
  /\ prod_st = "none"
  /\ prod_pos = 0
  /\ cons_st = "none"
  /\ cons_got = 0
  /\ pipe = <<>>
  /\ stdin_closed = FALSE
  /\ buf = <<>>
  /\ pbar_bytes = 0
  /\ moved = 0
  /\ skipped = 0
  /\ visited = {}
  /\ runs = 0
  /\ dest0 = dest
  /\ n_listings = 0
  /\ n_size_queries = 0
  /\ last_ok = FALSE
  /\ prev_ok = FALSE
  /\ last_rc = 0
  /\ stale_staged = {}
  /\ transfer_error = NoError

\* a run of the program begins: SSHDownloader(...), lines 23-42: local_dir is
\* created if missing and local_temp_dir is removed
XferConstruct ==
  /\ xfer_pc \in Between
  /\ runs < MaxRuns
  /\ runs' = runs + 1
  /\ staging' = RmTree(staging)
  /\ temp_exists' = (DOMAIN RmTree(staging) # {})
  /\ stale_staged' = DOMAIN staging
  /\ transfer_error' = NoError
  /\ last_rc' = 0
  /\ xfer_pc' = "list"
  /\ queue_paths_rel' = <<>>
  /\ total_size' = 0
  /\ prod_st' = "none"
  /\ prod_pos' = 0
  /\ cons_st' = "none"
  /\ cons_got' = 0
  /\ pipe' = <<>>
  /\ stdin_closed' = FALSE
  /\ buf' = <<>>
  /\ pbar_bytes' = 0
  /\ moved' = 0
  /\ skipped' = 0
  /\ visited' = {}
  /\ dest0' = dest
  /\ n_listings' = 0
  /\ n_size_queries' = 0
  /\ prev_ok' = last_ok
  /\ UNCHANGED <<remote, dest, last_ok>>
  /\ UNCHANGED <<poolVars, textVars, postVars, pipeVars>>

\* prepare_transfer, lines 70-82: the remote listing and the manifest
XferList ==
  /\ xfer_pc = "list"
  /\ n_listings' = n_listings + 1
  /\ last_rc' = 0
  /\ queue_paths_rel' = SortSet(Missing(remote, dest))
  /\ xfer_pc' = "size"
  /\ UNCHANGED <<remote, dest, staging, temp_exists, total_size, prod_st,
                 prod_pos, cons_st, cons_got, pipe, stdin_closed, buf,
                 pbar_bytes, moved, skipped, visited, runs, dest0,
                 n_size_queries, last_ok, prev_ok, stale_staged, transfer_error>>
  /\ UNCHANGED <<poolVars, textVars, postVars, pipeVars>>

\* prepare_transfer, line 73: the listing command fails; check_output raises
XferListFails ==
  /\ xfer_pc = "list"
  /\ n_listings' = n_listings + 1
  /\ last_rc' = SshFailRc
  /\ IF CheckOutputRaises(SshFailRc)
       THEN xfer_pc' = "failed" /\ last_ok' = FALSE
       ELSE xfer_pc' = "size" /\ UNCHANGED last_ok
  /\ UNCHANGED <<remote, dest, staging, temp_exists, queue_paths_rel,
                 total_size, prod_st, prod_pos, cons_st, cons_got, pipe,
                 stdin_closed, buf, pbar_bytes, moved, skipped, visited, runs,
                 dest0, n_size_queries, prev_ok, stale_staged, transfer_error>>
  /\ UNCHANGED <<poolVars, textVars, postVars, pipeVars>>

\* prepare_transfer, lines 84-86, find_transfer_size, lines 44-67, and
\* download, lines 176-179: the size queries reach the remote host, then the
\* early return when the manifest is empty
XferSize ==
  /\ xfer_pc = "size"
  /\ LET n == NumBatches(Len(queue_paths_rel))
         paths == {queue_paths_rel[k] : k \in 1..Len(queue_paths_rel)}
         rc == WcRc(paths, remote)
     IN
       /\ n_size_queries' = n
       /\ last_rc' = IF n > 0 THEN rc ELSE last_rc
       /\ IF n > 0 /\ CheckOutputRaises(rc)
            THEN /\ xfer_pc' = "failed"
                 /\ last_ok' = FALSE
                 /\ UNCHANGED total_size
            ELSE /\ total_size' = WcTotal(paths, remote)
                 /\ IF NothingToDo(queue_paths_rel)
                      THEN xfer_pc' = "done" /\ last_ok' = TRUE
                      ELSE xfer_pc' = "transfer" /\ UNCHANGED last_ok
  /\ UNCHANGED <<remote, dest, staging, temp_exists, queue_paths_rel, prod_st,
                 prod_pos, cons_st, cons_got, pipe, stdin_closed, buf,
                 pbar_bytes, moved, skipped, visited, runs, dest0, n_listings,
                 prev_ok, stale_staged, transfer_error>>
  /\ UNCHANGED <<poolVars, textVars, postVars, pipeVars>>

\* find_transfer_size, line 53: the connection fails during a size query;
\* check_output raises
XferSizeFails ==
  /\ xfer_pc = "size"
  /\ NumBatches(Len(queue_paths_rel)) > 0
  /\ \E k \in 1..NumBatches(Len(queue_paths_rel)) : n_size_queries' = k
  /\ last_rc' = SshFailRc
  /\ IF CheckOutputRaises(SshFailRc)
       THEN xfer_pc' = "failed" /\ last_ok' = FALSE /\ UNCHANGED total_size
       ELSE xfer_pc' = "transfer" /\ total_size' = 0 /\ UNCHANGED last_ok
  /\ UNCHANGED <<remote, dest, staging, temp_exists, queue_paths_rel,
                 prod_st, prod_pos, cons_st, cons_got, pipe,
                 stdin_closed, buf, pbar_bytes, moved, skipped, visited, runs,
                 dest0, n_listings, prev_ok, stale_staged, transfer_error>>
  /\ UNCHANGED <<poolVars, textVars, postVars, pipeVars>>

\* transfer, lines 89-116: the staging directory and the two processes
XferStartTransfer ==
  /\ xfer_pc = "transfer"
  /\ temp_exists' = TRUE
  /\ prod_st' = "running"
  /\ cons_st' = "running"
  /\ xfer_pc' = "read"
  /\ UNCHANGED <<remote, dest, staging, queue_paths_rel, total_size, prod_pos,
                 cons_got, pipe, stdin_closed, buf, pbar_bytes, moved, skipped,
                 visited, runs, dest0, n_listings, n_size_queries, last_ok,
                 prev_ok, last_rc, stale_staged, transfer_error>>
  /\ UNCHANGED <<poolVars, textVars, postVars, pipeVars>>

\* transfer, line 120: n = remote_prod.stdout.readinto(buf); 0 at end of stream
XferRead ==
  /\ xfer_pc = "read"
  /\ IF prod_st = "running"
        /\ prod_pos < Len(Stream(Archived(queue_paths_rel, remote)))
       THEN /\ buf' = Stream(Archived(queue_paths_rel, remote))[prod_pos + 1]
            /\ prod_pos' = prod_pos + 1
            /\ xfer_pc' = "write"
            /\ UNCHANGED prod_st
       ELSE /\ prod_st' = IF prod_st # "running" THEN prod_st
                          ELSE IF Archived(queue_paths_rel, remote) = queue_paths_rel
                                 THEN "exited" ELSE "failed"
            /\ xfer_pc' = "close"
            /\ UNCHANGED <<buf, prod_pos>>
  /\ UNCHANGED <<remote, dest, staging, temp_exists, queue_paths_rel,
                 total_size, cons_st, cons_got, pipe, stdin_closed, pbar_bytes,
                 moved, skipped, visited, runs, dest0, n_listings,
                 n_size_queries, last_ok, prev_ok, last_rc, stale_staged, transfer_error>>
  /\ UNCHANGED <<poolVars, textVars, postVars, pipeVars>>

\* transfer, lines 121-127: local_cons.stdin.write(mv[:n]); pbar.update(n).
\* The write waits while the pipe is full.
XferWrite ==
  /\ xfer_pc = "write"
  /\ cons_st = "running"
  /\ Len(pipe) < PipeCap
  /\ pipe' = WriteAll(pipe, buf)
  /\ buf' = <<>>
  /\ pbar_bytes' = pbar_bytes + 1
  /\ xfer_pc' = "read"
  /\ UNCHANGED <<remote, dest, staging, temp_exists, queue_paths_rel,
                 total_size, prod_st, prod_pos, cons_st, cons_got,
                 stdin_closed, moved, skipped, visited, runs, dest0,
                 n_listings, n_size_queries, last_ok, prev_ok, last_rc, stale_staged,
                 transfer_error>>
  /\ UNCHANGED <<poolVars, textVars, postVars, pipeVars>>

\* transfer, lines 121-126: the write raises BrokenPipeError: the producer
\* is killed and the error is raised again
XferBrokenPipe ==
  /\ xfer_pc = "write"
  /\ cons_st # "running"
  /\ prod_st' = Kill(prod_st)
  /\ xfer_pc' = "close_bpe"
  /\ UNCHANGED <<remote, dest, staging, temp_exists, queue_paths_rel,
                 total_size, prod_pos, cons_st, cons_got, pipe, stdin_closed,
                 buf, pbar_bytes, moved, skipped, visited, runs, dest0,
                 n_listings, n_size_queries, last_ok, prev_ok, last_rc,
                 stale_staged, transfer_error>>
  /\ UNCHANGED <<poolVars, textVars, postVars, pipeVars>>

\* transfer, lines 118-127: any other exception in the copy loop (an I/O
\* error of the read or the write, an interrupt) leaves it as it is raised
XferLoopError ==
  /\ xfer_pc \in {"read", "write"}
  /\ xfer_pc' = "close_exc"
  /\ UNCHANGED <<remote, dest, staging, temp_exists, queue_paths_rel,
                 total_size, prod_st, prod_pos, cons_st, cons_got, pipe,
                 stdin_closed, buf, pbar_bytes, moved, skipped, visited, runs,
                 dest0, n_listings, n_size_queries, last_ok, prev_ok, last_rc,
                 stale_staged, transfer_error>>
  /\ UNCHANGED <<poolVars, textVars, postVars, pipeVars>>

\* transfer, lines 129-134: the copy loop ended: local_cons.stdin.close()
XferClose ==
  /\ xfer_pc = "close"
  /\ stdin_closed' = CloseStdin(stdin_closed)
  /\ xfer_pc' = "wait"
  /\ UNCHANGED <<remote, dest, staging, temp_exists, queue_paths_rel,
                 total_size, prod_st, prod_pos, cons_st, cons_got, pipe, buf,
                 pbar_bytes, moved, skipped, visited, runs, dest0, n_listings,
                 n_size_queries, last_ok, prev_ok, last_rc, stale_staged,
                 transfer_error>>
  /\ UNCHANGED <<poolVars, textVars, postVars, pipeVars>>

\* transfer, lines 129-134, with an exception on its way out of the loop:
\* the finally clause closes stdin, then the exception leaves the with block
XferCloseRaised ==
  /\ xfer_pc \in {"close_bpe", "close_exc"}
  /\ stdin_closed' = CloseStdin(stdin_closed)
  /\ xfer_pc' = IF xfer_pc = "close_bpe" THEN "unwind_bpe" ELSE "unwind_exc"
  /\ UNCHANGED <<remote, dest, staging, temp_exists, queue_paths_rel,
                 total_size, prod_st, prod_pos, cons_st, cons_got, pipe, buf,
                 pbar_bytes, moved, skipped, visited, runs, dest0, n_listings,
                 n_size_queries, last_ok, prev_ok, last_rc, stale_staged,
                 transfer_error>>
  /\ UNCHANGED <<poolVars, textVars, postVars, pipeVars>>

\* transfer, line 90: the ExitStack leaves both Popen contexts, which wait
\* for their process; then the exception leaves transfer() and download()
XferUnwind ==
  /\ xfer_pc \in {"unwind_bpe", "unwind_exc"}
  /\ prod_st # "running"
  /\ cons_st # "running"
  /\ xfer_pc' = "failed"
  /\ last_ok' = FALSE
  /\ UNCHANGED <<remote, dest, staging, temp_exists, queue_paths_rel,
                 total_size, prod_st, prod_pos, cons_st, cons_got, pipe,
                 stdin_closed, buf, pbar_bytes, moved, skipped, visited, runs,
                 dest0, n_listings, n_size_queries, prev_ok, last_rc,
                 stale_staged, transfer_error>>
  /\ UNCHANGED <<poolVars, textVars, postVars, pipeVars>>

\* transfer, lines 136-146: wait for both, raise on a non-zero status;
\* download, line 181, enters finalize_transfer otherwise
XferWait ==
  /\ xfer_pc = "wait"
  /\ prod_st # "running"
  /\ cons_st # "running"
  /\ IF TransferFailed(WaitRc(prod_st), WaitRc(cons_st))
       THEN xfer_pc' = "failed" /\ last_ok' = FALSE
       ELSE xfer_pc' = "finalize" /\ UNCHANGED last_ok
  /\ moved' = 0
  /\ skipped' = 0
  /\ visited' = {}
  /\ transfer_error' = RaisedError(WaitRc(prod_st), WaitRc(cons_st))
  /\ UNCHANGED <<remote, dest, staging, temp_exists, queue_paths_rel,
                 total_size, prod_st, prod_pos, cons_st, cons_got, pipe,
                 stdin_closed, buf, pbar_bytes, runs, dest0, n_listings,
                 n_size_queries, prev_ok, last_rc, stale_staged>>
  /\ UNCHANGED <<poolVars, textVars, postVars, pipeVars>>

\* the local tar extracts the next chunk it received into local_temp_dir
ConsumerExtract ==
  /\ cons_st = "running"
  /\ Len(pipe) > 0
  /\ staging' = Extracted(staging, Head(pipe))
  /\ pipe' = Tail(pipe)
  /\ cons_got' = cons_got + 1
  /\ UNCHANGED <<remote, dest, temp_exists, xfer_pc, queue_paths_rel,
                 total_size, prod_st, prod_pos, cons_st, stdin_closed, buf,
                 pbar_bytes, moved, skipped, visited, runs, dest0, n_listings,
                 n_size_queries, last_ok, prev_ok, last_rc, stale_staged, transfer_error>>
  /\ UNCHANGED <<poolVars, textVars, postVars, pipeVars>>

\* the local tar reaches the end of its input: status 0 for a whole archive,
\* non-zero for a truncated one
ConsumerExit ==
  /\ cons_st = "running"
  /\ stdin_closed
  /\ Len(pipe) = 0
  /\ cons_st' = IF cons_got = Len(Stream(Archived(queue_paths_rel, remote)))
                  THEN "exited" ELSE "failed"
  /\ UNCHANGED <<remote, dest, staging, temp_exists, xfer_pc, queue_paths_rel,
                 total_size, prod_st, prod_pos, cons_got, pipe, stdin_closed,
                 buf, pbar_bytes, moved, skipped, visited, runs, dest0,
                 n_listings, n_size_queries, last_ok, prev_ok, last_rc, stale_staged,
                 transfer_error>>
  /\ UNCHANGED <<poolVars, textVars, postVars, pipeVars>>

\* the local tar dies (disk full, killed, ...): what it had not extracted is lost
ConsumerDies ==
  /\ cons_st = "running"
  /\ cons_st' = "failed"
  /\ pipe' = <<>>
  /\ UNCHANGED <<remote, dest, staging, temp_exists, xfer_pc, queue_paths_rel,
                 total_size, prod_st, prod_pos, cons_got, stdin_closed, buf,
                 pbar_bytes, moved, skipped, visited, runs, dest0, n_listings,
                 n_size_queries, last_ok, prev_ok, last_rc, stale_staged, transfer_error>>
  /\ UNCHANGED <<poolVars, textVars, postVars, pipeVars>>

\* the ssh connection or the remote tar fails: the stream ends where it is
ProducerFails ==
  /\ prod_st = "running"
  /\ prod_st' = "failed"
  /\ UNCHANGED <<remote, dest, staging, temp_exists, xfer_pc, queue_paths_rel,
                 total_size, prod_pos, cons_st, cons_got, pipe, stdin_closed,
                 buf, pbar_bytes, moved, skipped, visited, runs, dest0,
                 n_listings, n_size_queries, last_ok, prev_ok, last_rc, stale_staged,
                 transfer_error>>
  /\ UNCHANGED <<poolVars, textVars, postVars, pipeVars>>

\* finalize_transfer, lines 156-169: one file of the walk over local_temp_dir
XferFinalizeStep ==
  /\ xfer_pc = "finalize"
  /\ \E src \in (DOMAIN staging) \ visited :
       /\ visited' = visited \cup {src}
       /\ IF DstExists(dest, src)
            THEN /\ skipped' = skipped + 1
                 /\ UNCHANGED <<moved, dest, staging>>
            ELSE /\ dest' = With(dest, src, staging[src])
                 /\ staging' = Without(staging, src)
                 /\ moved' = moved + 1
                 /\ UNCHANGED skipped
  /\ UNCHANGED <<remote, temp_exists, xfer_pc, queue_paths_rel, total_size,
                 prod_st, prod_pos, cons_st, cons_got, pipe, stdin_closed, buf,
                 pbar_bytes, runs, dest0, n_listings, n_size_queries, last_ok,
                 prev_ok, last_rc, stale_staged, transfer_error>>
  /\ UNCHANGED <<poolVars, textVars, postVars, pipeVars>>

\* finalize_transfer, lines 171-173, and download, line 182: the walk is
\* over, local_temp_dir is removed
XferFinalizeEnd ==
  /\ xfer_pc = "finalize"
  /\ (DOMAIN staging) \ visited = {}
  /\ staging' = EmptyTree
  /\ temp_exists' = FALSE
  /\ xfer_pc' = "done"
  /\ last_ok' = TRUE
  /\ UNCHANGED <<remote, dest, queue_paths_rel, total_size, prod_st, prod_pos,
                 cons_st, cons_got, pipe, stdin_closed, buf, pbar_bytes, moved,
                 skipped, visited, runs, dest0, n_listings, n_size_queries,
                 prev_ok, last_rc, stale_staged, transfer_error>>
  /\ UNCHANGED <<poolVars, textVars, postVars, pipeVars>>

\* between two runs a new recording appears on the remote host
RemoteAdd(p) ==
  /\ xfer_pc \in Between
  /\ runs < MaxRuns
  /\ p \notin remote
  /\ remote' = remote \cup {p}
  /\ last_ok' = FALSE
  /\ UNCHANGED <<dest, staging, temp_exists, xfer_pc, queue_paths_rel,
                 total_size, prod_st, prod_pos, cons_st, cons_got, pipe,
                 stdin_closed, buf, pbar_bytes, moved, skipped, visited, runs,
                 dest0, n_listings, n_size_queries, prev_ok, last_rc, stale_staged,
                 transfer_error>>
  /\ UNCHANGED <<poolVars, textVars, postVars, pipeVars>>

\* the run's view of the remote tree changes: a recording is deleted on
\* the remote host between two runs, or between the listing and the size query
RemoteRemove(p) ==
  /\ xfer_pc \in Between \cup {"size"}
  /\ runs < MaxRuns \/ xfer_pc = "size"
  /\ p \in remote
  /\ remote' = remote \ {p}
  /\ last_ok' = FALSE
  /\ UNCHANGED <<dest, staging, temp_exists, xfer_pc, queue_paths_rel,
                 total_size, prod_st, prod_pos, cons_st, cons_got, pipe,
                 stdin_closed, buf, pbar_bytes, moved, skipped, visited, runs,
                 dest0, n_listings, n_size_queries, prev_ok, last_rc,
                 stale_staged, transfer_error>>
  /\ UNCHANGED <<poolVars, textVars, postVars, pipeVars>>

\* finalize_transfer, lines 162 and 168: mkdir or os.replace raises OSError
\* for a file of the walk; the error leaves finalize_transfer and download
XferFinalizeFails ==
  /\ xfer_pc = "finalize"
  /\ (DOMAIN staging) \ visited # {}
  /\ xfer_pc' = "finalize_failed"
  /\ last_ok' = FALSE
  /\ UNCHANGED <<remote, dest, staging, temp_exists, queue_paths_rel,
                 total_size, prod_st, prod_pos, cons_st, cons_got, pipe,
                 stdin_closed, buf, pbar_bytes, moved, skipped, visited, runs,
                 dest0, n_listings, n_size_queries, prev_ok, last_rc,
                 stale_staged, transfer_error>>
  /\ UNCHANGED <<poolVars, textVars, postVars, pipeVars>>

TransferNext ==
  \/ XferConstruct
  \/ XferList
  \/ XferListFails
  \/ XferSize
  \/ XferSizeFails
  \/ XferStartTransfer
  \/ XferRead
  \/ XferWrite
  \/ XferBrokenPipe
  \/ XferLoopError
  \/ XferCloseRaised
  \/ XferUnwind
  \/ XferClose
  \/ XferWait
  \/ ConsumerExtract
  \/ ConsumerExit
  \/ ConsumerDies
  \/ ProducerFails
  \/ XferFinalizeStep
  \/ XferFinalizeEnd
  \/ XferFinalizeFails
  \/ \E p \in Paths : RemoteAdd(p)
  \/ \E p \in Paths : RemoteRemove(p)

SpecTransfer == TransferInit /\ [][TransferNext]_vars

\* finalize_transfer called on its own: any staging tree over any local tree
FinalizeTrees ==
  UNION {[D -> {1, 2, 3}] : D \in SUBSET Paths}

FinalizeContent(p, v) ==
  IF v = 1 THEN Sentinel ELSE IF v = 2 THEN <<Chunk(p, 1)>> ELSE RemoteData(p)

FinalizeInit ==
  /\ PoolIdle
  /\ MergeIdle
  /\ PostIdle
  /\ PipeIdle
  /\ remote = Paths
  /\ \E t \in FinalizeTrees : dest = [p \in DOMAIN t |-> FinalizeContent(p, t[p])]
  /\ \E t \in FinalizeTrees : staging = [p \in DOMAIN t |-> FinalizeContent(p, t[p])]
  /\ temp_exists = TRUE
  /\ xfer_pc = "finalize"
  /\ queue_paths_rel = <<>>
  /\ total_size = 0
  /\ prod_st = "none"
  /\ prod_pos = 0
  /\ cons_st = "none"
  /\ cons_got = 0
  /\ pipe = <<>>
  /\ stdin_closed = FALSE
  /\ buf = <<>>
  /\ pbar_bytes = 0
  /\ moved = 0
  /\ skipped = 0
  /\ visited = {}
  /\ runs = MaxRuns
  /\ dest0 = dest
  /\ n_listings = 0
  /\ n_size_queries = 0
  /\ last_ok = FALSE
  /\ prev_ok = FALSE
  /\ last_rc = 0
  /\ stale_staged = {}
  /\ transfer_error = NoError

FinalizeNext ==
  \/ XferFinalizeStep
  \/ XferFinalizeEnd
  \/ XferFinalizeFails

SpecFinalize == FinalizeInit /\ [][FinalizeNext]_vars

(***************************************************************************)
(* History operators: positions of events in hist                          *)
(***************************************************************************)
HasEvent(kind, p) == \E k \in 1..Len(hist) : hist[k] = <<kind, p>>

EventPos(kind, p) == CHOOSE k \in 1..Len(hist) : hist[k] = <<kind, p>>

\* the jobs in the order of their reap events
ReapSeq == SelectSeq(hist, LAMBDA e : e[1] = "reap")

\* the position in results of the result of a reaped job
ResultIndex(p) == CHOOSE k \in 1..Len(ReapSeq) : ReapSeq[k][2] = p

\* the job whose result is results[k]
JobOfResult(k) == ReapSeq[k][2]

Alive == {p \in Procs : procs[p].st = "running"}

\* max(1, max_workers), written out from the argument given to the pool
Ceiling == IF workers_arg < 1 THEN 1 ELSE workers_arg

\* the jobs started and not yet reaped
InFlight == {p \in Procs : HasEvent("start", p) /\ ~HasEvent("reap", p)}

(***************************************************************************)
(* C1: at every moment the number of in-flight jobs (the jobs started and  *)
(* not yet reaped, the running dict included) is at most                    *)
(* max(1, max_workers); a job is started only while the in-flight set is   *)
(* smaller than that ceiling; a ceiling of 0 or less behaves as 1.         *)
(***************************************************************************)
C1_Ceiling ==
  /\ Len(running) <= Ceiling
  /\ Cardinality(InFlight) <= Ceiling
  /\ Cardinality(Alive) <= Ceiling
  /\ pool_pc = "start" => Len(running) < Ceiling

\* a ceiling given as 0 or -1 holds one job in flight while another waits
C1_Witness ==
  /\ workers_arg < 1
  /\ pool_pc = "scan"
  /\ Len(running) = 1
  /\ i < Len(cmds)

(***************************************************************************)
(* C2: when run() returns normally it returns exactly one result per       *)
(* submitted command, and the multiset of (command, exit status) pairs of  *)
(* the results is the multiset of (cmds[k], exit status of cmds[k] run on  *)
(* its own), whatever the order of termination.                            *)
(***************************************************************************)
RcValues == {0, 1, KilledRc, None}

CountResults(c, r) ==
  Cardinality({k \in 1..Len(results) : results[k].cmd = c /\ results[k].rc = r})

CountSubmitted(c, r) ==
  Cardinality({k \in 1..Len(cmds) : cmds[k] = c /\ IsolatedRc(c) = r})

C2_OneResultPerCommand ==
  pool_pc = "done" =>
    /\ Len(results) = Len(cmds)
    /\ \A c \in Cmds : \A r \in RcValues : CountResults(c, r) = CountSubmitted(c, r)

\* a normal return of three results collected out of submission order
C2_Witness ==
  /\ pool_pc = "done"
  /\ Len(results) = MaxJobs
  /\ \E k \in 1..Len(results) : results[k].cmd # cmds[k]

(***************************************************************************)
(* C3: a job that exits non-zero never aborts the batch: the step that     *)
(* reaps it records its status in its result, raises nothing and goes back *)
(* to the head of the loop, and run() leaves the loop without an exception *)
(* only when every submitted command was started and has its result.       *)
(***************************************************************************)
C3_ReapStep ==
  (results' # results /\ Poll(finished_proc) # 0) =>
    /\ results' = Append(results, [cmd |-> procs[finished_proc].cmd,
                                   rc |-> procs[finished_proc].rc])
    /\ procs[finished_proc].rc = IsolatedRc(procs[finished_proc].cmd)
    /\ exc' = exc
    /\ pool_pc' = "loop"

C3_AllStillRun ==
  (pool_pc \in {"finally", "done"} /\ ~exc) =>
    /\ i = Len(cmds)
    /\ \A p \in 1..Len(cmds) : HasEvent("start", p) /\ HasEvent("reap", p)
    /\ \A p \in 1..Len(cmds) : results[ResultIndex(p)].rc = IsolatedRc(cmds[p])

C3_FailureIsolated == [][C3_ReapStep]_vars /\ []C3_AllStillRun

\* a batch that returned normally although its first reaped job failed
C3_Witness ==
  /\ pool_pc = "done"
  /\ Len(results) = MaxJobs
  /\ results[1].rc # 0
  /\ \E k \in 2..Len(results) : results[k].rc = 0

(***************************************************************************)
(* C4: when an exception interrupts run(), no job started by the pool is   *)
(* still running once control has left run().                              *)
(***************************************************************************)
C4_NoOrphan == pool_pc \in {"raised", "done"} => Alive = {}

(***************************************************************************)
(* C5 as claimed: results are in termination order: if A terminates before *)
(* B then A's result precedes B's.                                         *)
(***************************************************************************)
C5_CompletionOrder ==
  \A a, b \in Procs :
    (/\ HasEvent("reap", a) /\ HasEvent("reap", b)
     /\ EventPos("exit", a) < EventPos("exit", b))
      => ResultIndex(a) < ResultIndex(b)

(***************************************************************************)
(* C5 as amended: results are in reap order, the order in which the scan   *)
(* observed the jobs as terminated: every result belongs to a job that had *)
(* terminated, and if A terminates before B is started then A's result     *)
(* precedes B's.                                                           *)
(***************************************************************************)
C5_ReapOrder ==
  /\ \A k \in 1..Len(results) :
       LET j == JobOfResult(k) IN
         /\ HasEvent("exit", j)
         /\ EventPos("exit", j) < EventPos("reap", j)
         /\ results[k].cmd = cmds[j]
  /\ \A ka, kb \in 1..Len(results) :
       EventPos("exit", JobOfResult(ka)) < EventPos("start", JobOfResult(kb))
         => ka < kb

\* A terminated before B was started, both were in flight together, both reaped
C5_Witness ==
  \E a, b \in Procs :
    /\ HasEvent("reap", a) /\ HasEvent("reap", b)
    /\ EventPos("exit", a) < EventPos("start", b)
    /\ EventPos("start", b) < EventPos("reap", a)

(***************************************************************************)
(* C6: with a ceiling of 1, job k+1 is started only after job k has been   *)
(* reaped, and results are in submission order: results[k] belongs to      *)
(* cmds[k].                                                                *)
(***************************************************************************)
C6_Sequential ==
  Ceiling = 1 =>
    /\ \A p \in Procs :
         HasEvent("start", p) =>
           \A q \in 1..(p - 1) :
             HasEvent("reap", q) /\ EventPos("reap", q) < EventPos("start", p)
    /\ \A k \in 1..Len(results) :
         JobOfResult(k) = k /\ results[k].cmd = cmds[k]

\* three jobs run one after the other, the later ones terminating at once
C6_Witness ==
  /\ Ceiling = 1
  /\ pool_pc = "done"
  /\ Len(results) = MaxJobs
  /\ cmds[1] # cmds[2]

(***************************************************************************)
(* Transfer: what the claims speak of                                      *)
(***************************************************************************)
\* the positions of a run after its remote listing
AfterListing ==
  {"size", "transfer", "read", "write", "close", "close_bpe", "close_exc",
   "unwind_bpe", "unwind_exc", "wait", "finalize"}

QueueSet == {queue_paths_rel[k] : k \in 1..Len(queue_paths_rel)}

\* a file that is neither absent nor the whole remote file
IsPartial(tree, p) == p \in DOMAIN tree /\ tree[p] # RemoteData(p)

(***************************************************************************)
(* C7: in every state of every run, streaming and the states after a       *)
(* failure included, each file under local_dir is either a file that was   *)
(* there, with that content, when the run began, or a complete copy of the *)
(* remote file of the same relative path.                                  *)
(***************************************************************************)
C7_NoPartialAtDestination ==
  \A p \in DOMAIN dest :
    \/ p \in DOMAIN dest0 /\ dest[p] = dest0[p]
    \/ p \in QueueSet /\ dest[p] = RemoteData(p)

\* a second run failed and left a partial file staged, next to a
\* destination that holds a file promoted by the first run
C7_Witness ==
  /\ runs = 2
  /\ xfer_pc = "failed"
  /\ \E p \in DOMAIN staging : IsPartial(staging, p)
  /\ \E q \in DOMAIN dest : dest[q] = RemoteData(q)

(***************************************************************************)
(* C8: the manifest of prepare_transfer is exactly the set of listed       *)
(* remote files whose relative path does not exist under local_dir: a path *)
(* that exists locally is never in it whatever its content, every other    *)
(* listed file is in it, once, in sorted order.                            *)
(***************************************************************************)
C8_ManifestIsMissingSet ==
  [][xfer_pc = "list" /\ xfer_pc' = "size" /\ last_rc' = 0 =>
       /\ \A p \in Paths :
            p \in QueueSet' <=> (p \in remote /\ p \notin DOMAIN dest)
       /\ Len(queue_paths_rel') = Cardinality(QueueSet')
       /\ \A a, b \in 1..Len(queue_paths_rel') :
            a < b => queue_paths_rel'[a] < queue_paths_rel'[b]]_vars

\* a listed file exists locally with another content and is left out, while
\* another listed file is queued
C8_Witness ==
  /\ xfer_pc = "size"
  /\ Len(queue_paths_rel) > 0
  /\ \E p \in remote : p \in DOMAIN dest /\ dest[p] # RemoteData(p)

(***************************************************************************)
(* C9: a download() that follows a completed download(), the remote tree   *)
(* unchanged, computes an empty manifest and does nothing beyond the one   *)
(* remote listing: no size query, no producer or consumer, no staging      *)
(* directory, no change to local_dir.                                      *)
(***************************************************************************)
C9_SecondRunDoesNothing ==
  (prev_ok /\ xfer_pc \notin {"idle", "list"}) =>
    /\ Len(queue_paths_rel) = 0
    /\ n_listings = 1
    /\ n_size_queries = 0
    /\ prod_st = "none" /\ cons_st = "none"
    /\ ~temp_exists /\ DOMAIN staging = {}
    /\ dest = dest0
    /\ xfer_pc \in {"size", "done", "failed"}

\* the second download returned, the first one having promoted a file
C9_Witness ==
  /\ prev_ok
  /\ xfer_pc = "done"
  /\ \E p \in DOMAIN dest : dest[p] = RemoteData(p)
  /\ \E p \in DOMAIN dest : dest[p] # RemoteData(p)

(***************************************************************************)
(* C10: finalize_transfer never overwrites a file of local_dir: every file *)
(* that was there keeps its content, and a staged file whose destination   *)
(* exists is counted as skipped and not as moved.                          *)
(***************************************************************************)
C10_FinalizeNeverOverwrites ==
  xfer_pc \in {"finalize", "done", "finalize_failed"} =>
    /\ \A p \in DOMAIN dest0 : p \in DOMAIN dest /\ dest[p] = dest0[p]
    /\ skipped = Cardinality(visited \cap DOMAIN dest0)
    /\ moved = Cardinality(visited \ DOMAIN dest0)

\* a sentinel at the destination, another content staged at the same path,
\* the walk has passed it and has moved another file
C10_Witness ==
  /\ xfer_pc = "finalize"
  /\ moved > 0
  /\ \E p \in visited \cap DOMAIN staging :
       /\ p \in DOMAIN dest0
       /\ dest[p] = Sentinel
       /\ staging[p] = RemoteData(p)

\* the run met a transport error: a listing or size command failed, the
\* producer failed or was killed on a broken pipe, or the consumer failed
TransportError ==
  \/ last_rc # 0
  \/ prod_st \in {"failed", "killed"}
  \/ cons_st = "failed"

Finalizing == {"finalize", "done", "finalize_failed"}

(***************************************************************************)
(* C11: once a run has met a transport error (a failed listing or size     *)
(* command, a broken pipe, a producer or consumer that ended with a        *)
(* non-zero status), finalize is not executed in that run and the          *)
(* destination tree is exactly the tree the run began with; a run that     *)
(* ended as failed promoted nothing.                                       *)
(***************************************************************************)
C11_TransportErrorLeavesDestination ==
  /\ TransportError => xfer_pc \notin Finalizing /\ dest = dest0
  /\ xfer_pc = "failed" => dest = dest0 /\ visited = {} /\ moved = 0

\* the producer failed after whole files were staged, the run has ended as
\* failed, and the destination held a file before the run
C11_Witness ==
  /\ xfer_pc = "failed"
  /\ prod_st = "failed"
  /\ cons_st = "exited"
  /\ DOMAIN staging # {}
  /\ DOMAIN dest0 # {}
  /\ dest = dest0

\* the staging tree after the consumer extracted the first n chunks of a
\* stream into an empty directory
RECURSIVE StagedBy(_, _)
StagedBy(stream, n) ==
  IF n = 0 THEN EmptyTree ELSE Extracted(StagedBy(stream, n - 1), stream[n])

BeforeStreaming == {"list", "size", "transfer"}

Streaming ==
  {"read", "write", "close", "close_bpe", "close_exc", "unwind_bpe",
   "unwind_exc", "wait"}

(***************************************************************************)
(* C12: the staging area is empty from the start of a run until the run    *)
(* streams into it, also when an earlier run was aborted and left files    *)
(* staged; while the run streams, the staging area holds exactly what this *)
(* run's consumer has extracted, and finalize visits only files of this    *)
(* run's manifest.                                                         *)
(***************************************************************************)
C12_StagingEmptyAtStart ==
  /\ xfer_pc \in BeforeStreaming => DOMAIN staging = {}
  /\ xfer_pc \in Streaming =>
       staging = StagedBy(Stream(Archived(queue_paths_rel, remote)), cons_got)
  /\ xfer_pc \in Finalizing => (DOMAIN staging) \cup visited \subseteq QueueSet

\* an earlier run left a file staged that is not in the destination; the
\* later run promoted another file and ended without it
C12_Witness ==
  /\ xfer_pc = "done"
  /\ moved > 0
  /\ \E p \in stale_staged : p \notin DOMAIN dest

(***************************************************************************)
(* C13: when finalize_transfer has ended, by returning or by an error of   *)
(* mkdir or os.replace part-way through the walk, the staging directory    *)
(* has been removed.                                                       *)
(***************************************************************************)
C13_StagingRemovedHoweverFinalizeEnds ==
  xfer_pc \in {"done", "finalize_failed"} =>
    DOMAIN staging = {} /\ ~temp_exists

(***************************************************************************)
(* C14: after the listing command or a size query of a run has ended with  *)
(* a non-zero status, the run has failed with the error: neither streaming *)
(* process was started, the staging directory was not created, nothing was *)
(* staged and nothing promoted, and the destination is as the run found    *)
(* it.                                                                     *)
(***************************************************************************)
C14_ListingOrSizeFailureAborts ==
  last_rc # 0 =>
    /\ xfer_pc = "failed"
    /\ prod_st = "none"
    /\ cons_st = "none"
    /\ DOMAIN staging = {}
    /\ ~temp_exists
    /\ moved = 0
    /\ visited = {}
    /\ dest = dest0

\* a size query failed for a manifest of more than one file: the run is
\* over with no file staged
C14_Witness ==
  /\ last_rc = SshFailRc
  /\ n_size_queries > 0
  /\ Len(queue_paths_rel) > 1
  /\ xfer_pc = "failed"
  /\ DOMAIN staging = {}

\* the listing command failed: the run is over before any size query
C14_WitnessListing ==
  /\ last_rc = SshFailRc
  /\ n_listings = 1
  /\ n_size_queries = 0
  /\ xfer_pc = "failed"

(***************************************************************************)
(* C15: a size query that reaches the remote host does not fail the run,   *)
(* also when a queried file is no longer there: the total it returns is    *)
(* the sum of the sizes of the queried files that exist.                   *)
(***************************************************************************)
C15_SizeToleratesMissingFiles ==
  [][xfer_pc = "size" /\ n_size_queries' > 0 /\ last_rc' # SshFailRc =>
       /\ xfer_pc' # "failed"
       /\ total_size' = FileLen * Cardinality(QueueSet \cap remote)]_vars

(***************************************************************************)
(* WhisperTranscribe.merge_segments                                        *)
(*                                                                         *)
(* A timing value is <<kind, n>>: a number n, a string that float() parses *)
(* to n, None (also what seg.get gives for a missing key), or a string     *)
(* float() cannot parse.  A text is a sequence of characters.              *)
(***************************************************************************)
Num(n) == <<"num", n>>

NumStr(n) == <<"str", n>>

NoneVal == <<"none", 0>>

BadStr == <<"bad", 0>>

\* a threshold no gap exceeds, as float("inf")
Unbounded == MaxTime + 1

Thresholds == (0..MaxGap) \cup {Unbounded}

Letters == <<"a", "b", "c", "d", "e", "f">>

\* the text of the k-th input segment; every second one has leading space
Word(k) == IF k % 2 = 0 THEN <<" ", Letters[k]>> ELSE <<Letters[k]>>

\* what a segment of the input can be, the text apart
Shapes ==
  {[dict |-> TRUE, start |-> Num(a), end |-> Num(b), blank |-> FALSE] :
     a \in 0..MaxTime, b \in 0..MaxTime}
  \cup {[dict |-> TRUE, start |-> NoneVal, end |-> Num(0), blank |-> FALSE],
        [dict |-> TRUE, start |-> Num(0), end |-> BadStr, blank |-> FALSE],
        [dict |-> TRUE, start |-> NumStr(0), end |-> NumStr(1), blank |-> FALSE],
        [dict |-> TRUE, start |-> Num(0), end |-> Num(0), blank |-> TRUE],
        [dict |-> FALSE, start |-> NoneVal, end |-> NoneVal, blank |-> TRUE]}

Segment(shape, k) ==
  [dict |-> shape.dict, start |-> shape.start, end |-> shape.end,
   text |-> IF shape.blank THEN <<" ">> ELSE Word(k)]

\* float(x): the exception it raises, or "ok"
FloatExc(v) ==
  IF v[1] = "none" THEN "TypeError"
  ELSE IF v[1] = "bad" THEN "ValueError" ELSE "ok"

\* float(x) when it raises nothing
Float(v) == v[2]

CaughtOnlyValueError(e) == e = "ValueError"

\* line 288: except (TypeError, ValueError)
Caught(e) == e \in {"TypeError", "ValueError"}

\* lines 285-287: the exception of float(start), else that of float(end)
TimingExc(seg) ==
  IF FloatExc(seg.start) # "ok" THEN FloatExc(seg.start) ELSE FloatExc(seg.end)

\* str.strip()
RECURSIVE Strip(_)
Strip(t) ==
  IF t = <<>> THEN <<>>
  ELSE IF Head(t) = " " THEN Strip(Tail(t))
  ELSE IF t[Len(t)] = " " THEN Strip(SubSeq(t, 1, Len(t) - 1))
  ELSE t

\* lines 277-296: the segment passes every test of the normalisation loop
Kept(seg) ==
  /\ seg.dict
  /\ TimingExc(seg) = "ok"
  /\ ~(Float(seg.end) < Float(seg.start))
  /\ Strip(seg.text) # <<>>

\* an exception of float() that line 288 does not catch leaves the loop
Raises(seg) == seg.dict /\ TimingExc(seg) # "ok" /\ ~Caught(TimingExc(seg))

\* lines 276-305: the list normalized
Normalize(segs) ==
  LET idx == SelectSeq([k \in 1..Len(segs) |-> k], LAMBDA k : Kept(segs[k]))
  IN [j \in 1..Len(idx) |->
        [start |-> Float(segs[idx[j]].start),
         end |-> Float(segs[idx[j]].end),
         text |-> Strip(segs[idx[j]].text),
         source_index |-> idx[j] - 1]]

\* line 310: the sort key (start, end), compared as tuples
SortKeyLeq(a, b) == a.start < b.start \/ (a.start = b.start /\ a.end <= b.end)

\* list.sort is stable: x goes behind every element whose key is not larger
Insert(sorted, x) ==
  LET pos == Cardinality({j \in 1..Len(sorted) : SortKeyLeq(sorted[j], x)})
  IN SubSeq(sorted, 1, pos) \o <<x>> \o SubSeq(sorted, pos + 1, Len(sorted))

RECURSIVE SortSegments(_)
SortSegments(s) ==
  IF s = <<>> THEN <<>>
  ELSE Insert(SortSegments(SubSeq(s, 1, Len(s) - 1)), s[Len(s)])

JoinsStrictly(gap, th) == gap < th

\* line 324: if gap <= gap_threshold_s
Joins(gap, th) == gap <= th

AccEndLast(cur_end, seg_end) == seg_end

\* line 326: cur_end = max(cur_end, seg_end)
AccEnd(cur_end, seg_end) == IF seg_end > cur_end THEN seg_end ELSE cur_end

\* " ".join(parts)
RECURSIVE SpaceJoin(_)
SpaceJoin(parts) ==
  IF parts = <<>> THEN <<>>
  ELSE IF Len(parts) = 1 THEN parts[1]
  ELSE parts[1] \o <<" ">> \o SpaceJoin(Tail(parts))

\* lines 329-336 and 342-349: the output segment of an accumulator; the
\* midpoint (cur_start + cur_end) / 2.0 is kept as its double
Emit(cur) ==
  [start |-> cur.start, end |-> cur.end, midpoint_x2 |-> cur.start + cur.end,
   text |-> Strip(SpaceJoin(cur.parts))]

\* lines 318-349: the loop over normalized[1:] and the final append
RECURSIVE Fold(_, _, _, _)
Fold(rest, cur, out, th) ==
  IF rest = <<>> THEN Append(out, Emit(cur))
  ELSE LET seg == Head(rest)
           gap == seg.start - cur.end
       IN IF Joins(gap, th)
            THEN Fold(Tail(rest),
                      [start |-> cur.start,
                       end |-> AccEnd(cur.end, seg.end),
                       parts |-> Append(cur.parts, seg.text)],
                      out, th)
            ELSE Fold(Tail(rest),
                      [start |-> seg.start, end |-> seg.end,
                       parts |-> <<seg.text>>],
                      Append(out, Emit(cur)), th)

merge_segments(segs, th) ==
  IF segs = <<>> THEN <<>>
  ELSE LET normalized == Normalize(segs)
       IN IF normalized = <<>> THEN <<>>
          ELSE LET sorted == SortSegments(normalized)
               IN Fold(Tail(sorted),
                       [start |-> sorted[1].start, end |-> sorted[1].end,
                        parts |-> <<sorted[1].text>>],
                       <<>>, th)

MergeInit ==
  /\ PoolIdle
  /\ XferIdle
  /\ PostIdle
  /\ PipeIdle
  /\ \E n \in 0..MaxSegs : \E f \in [1..n -> Shapes] :
       segments = [k \in 1..n |-> Segment(f[k], k)]
  /\ gap_threshold_s \in Thresholds
  /\ merged = <<>>
  /\ merge_pc = "call"

\* one call of merge_segments
MergeSegments ==
  /\ merge_pc = "call"
  /\ IF \E k \in 1..Len(segments) : Raises(segments[k])
       THEN merge_pc' = "raised" /\ merged' = <<>>
       ELSE /\ merge_pc' = "returned"
            /\ merged' = merge_segments(segments, gap_threshold_s)
  /\ UNCHANGED <<segments, gap_threshold_s>>
  /\ UNCHANGED <<poolVars, xferVars, postVars, pipeVars>>

MergeNext == MergeSegments

SpecMerge == MergeInit /\ [][MergeNext]_vars

\* the valid segments of the call in the order of the sort
SortedValid == SortSegments(Normalize(segments))

\* the largest end among the segments lo..hi of a list
MaxEndIn(N, lo, hi) ==
  CHOOSE m \in {N[j].end : j \in lo..hi} : \A j \in lo..hi : N[j].end <= m

\* the texts of the segments lo..hi with one space between neighbours
RECURSIVE JoinRange(_, _, _)
JoinRange(N, lo, hi) ==
  IF lo = hi THEN N[lo].text
  ELSE JoinRange(N, lo, hi - 1) \o <<" ">> \o N[hi].text

\* the outputs are the groups that the boundaries B cut the list N into
GroupedBy(N, B, out, th) ==
  LET first == SortSet({1} \cup B)
      lo(g) == first[g]
      hi(g) == IF g = Len(first) THEN Len(N) ELSE first[g + 1] - 1
  IN /\ Len(out) = Len(first)
     /\ \A g \in 1..Len(first) :
          /\ out[g].start = N[lo(g)].start
          /\ out[g].end = MaxEndIn(N, lo(g), hi(g))
          /\ out[g].text = JoinRange(N, lo(g), hi(g))
          /\ \A k \in (lo(g) + 1)..hi(g) :
               N[k].start - MaxEndIn(N, lo(g), k - 1) <= th
          /\ g > 1 =>
               N[lo(g)].start - MaxEndIn(N, lo(g - 1), hi(g - 1)) > th

(***************************************************************************)
(* C16: the output of merge_segments cuts the valid segments, in the order *)
(* of (start, end), into groups of neighbours: a segment is in the group   *)
(* of its predecessor exactly when its start minus the largest end of the  *)
(* group so far is at most the threshold; each output has the start of its *)
(* group's first segment, the largest end of the group and the group's     *)
(* texts joined by single spaces in that order; the gap between two        *)
(* consecutive outputs is larger than the threshold.                       *)
(***************************************************************************)
C16_LeftFoldOverSorted ==
  merge_pc = "returned" =>
    LET N == SortedValid
    IN /\ \A a, b \in 1..Len(N) : a < b =>
            /\ SortKeyLeq(N[a], N[b])
            /\ SortKeyLeq(N[b], N[a]) => N[a].source_index < N[b].source_index
       /\ IF N = <<>> THEN merged = <<>>
          ELSE \E B \in SUBSET (2..Len(N)) :
                 GroupedBy(N, B, merged, gap_threshold_s)
       /\ \A g \in 1..(Len(merged) - 1) :
            merged[g + 1].start - merged[g].end > gap_threshold_s

\* three valid segments given out of order: the second of the sort lies
\* inside the first, the third joins only through the first one's end
C16_Witness ==
  /\ merge_pc = "returned"
  /\ Len(SortedValid) = 3
  /\ SortedValid[1].source_index > SortedValid[2].source_index
  /\ SortedValid[2].end < SortedValid[1].end
  /\ SortedValid[3].start - SortedValid[2].end > gap_threshold_s
  /\ Len(merged) = 1

\* the valid segments that start behind every end before them
StartsAfterAll(N) ==
  {k \in 2..Len(N) : N[k].start > MaxEndIn(N, 1, k - 1)}

(***************************************************************************)
(* C17: with threshold 0 a segment that starts after the end of the        *)
(* accumulator starts a new output and no other segment does, so outputs   *)
(* never touch; with an unbounded threshold a non-empty list of valid      *)
(* segments gives exactly one output, from the smallest start to the       *)
(* largest end.                                                            *)
(***************************************************************************)
C17_ThresholdZeroAndUnbounded ==
  merge_pc = "returned" /\ SortedValid # <<>> =>
    LET N == SortedValid
    IN /\ gap_threshold_s = 0 =>
            /\ Len(merged) = 1 + Cardinality(StartsAfterAll(N))
            /\ \A k \in StartsAfterAll(N) : \E g \in 2..Len(merged) :
                 /\ merged[g].start = N[k].start
                 /\ merged[g - 1].end < N[k].start
            /\ \A g \in 1..(Len(merged) - 1) : merged[g].end < merged[g + 1].start
       /\ gap_threshold_s = Unbounded =>
            /\ Len(merged) = 1
            /\ \A k \in 1..Len(N) : merged[1].start <= N[k].start
            /\ \E k \in 1..Len(N) : merged[1].start = N[k].start
            /\ merged[1].end = MaxEndIn(N, 1, Len(N))

\* threshold 0: two back-to-back segments are one output and a third one,
\* which starts later, is another
C17_Witness ==
  /\ merge_pc = "returned"
  /\ gap_threshold_s = 0
  /\ Len(SortedValid) = 3
  /\ SortedValid[2].start = SortedValid[1].end
  /\ SortedValid[1].start < SortedValid[1].end
  /\ Len(merged) = 2

\* an unbounded threshold: three valid segments far apart are one output
C17_WitnessUnbounded ==
  /\ merge_pc = "returned"
  /\ gap_threshold_s = Unbounded
  /\ Len(SortedValid) = 3
  /\ SortedValid[2].start > SortedValid[1].end
  /\ Len(merged) = 1

\* lines 281-292: start or end is missing or does not parse, or the end is
\* before the start
MalformedTiming(seg) ==
  /\ seg.dict
  /\ \/ seg.start[1] \in {"none", "bad"}
     \/ seg.end[1] \in {"none", "bad"}
     \/ seg.end[2] < seg.start[2]

WellTimed(seg) == ~MalformedTiming(seg)

(***************************************************************************)
(* C18: merge_segments raises nothing for a segment whose start or end is  *)
(* missing or unparseable or whose end is before its start, and returns    *)
(* what it returns for the input without those segments.                   *)
(***************************************************************************)
C18_MalformedDropped ==
  merge_pc # "call" =>
    /\ merge_pc = "returned"
    /\ merged = merge_segments(SelectSeq(segments, WellTimed), gap_threshold_s)

\* a segment without start and one with end before start, among valid ones
C18_Witness ==
  /\ merge_pc = "returned"
  /\ \E k \in 1..Len(segments) : segments[k].start = NoneVal
  /\ \E k \in 1..Len(segments) :
       /\ TimingExc(segments[k]) = "ok"
       /\ Float(segments[k].end) < Float(segments[k].start)
  /\ merged # <<>>

(***************************************************************************)
(* WhisperTranscribe.postprocess_transcripts                               *)
(*                                                                         *)
(* A call directory holds customer.json and store.json, written by         *)
(* _write_transcript, timestamp.json, and perhaps an earlier               *)
(* conversation.json.  A file is "ok", "missing" or "unreadable" (not      *)
(* JSON).  Texts and lines are sequences of characters, a channel name     *)
(* being one of them.                                                      *)
(***************************************************************************)
PostThresholds == {None} \cup Thresholds

\* the segments the transcription gave for one channel: one second each,
\* in order of time
ChannelSegments ==
  {LET starts == SortSet(S)
   IN [k \in 1..Len(starts) |->
         [dict |-> TRUE, start |-> Num(starts[k]), end |-> Num(starts[k] + 1),
          text |-> Word(k)]] :
     S \in {T \in SUBSET (0..(MaxTime - 1)) : Cardinality(T) <= MaxChanSegs}}

\* _write_transcript, lines 358-369: the payload of a channel's transcript;
\* audio_call is the call directory in audio_file
write_transcript(audio_call, channel, segs, th) ==
  [audio_call |-> audio_call, channel |-> channel, segments |-> segs,
   has_merged |-> th # None,
   merged_segments |-> IF th # None THEN merge_segments(segs, th) ELSE <<>>]

\* the states of customer.json, store.json and timestamp.json: all there, or
\* one of them missing, unreadable (read_text or json.loads raises) or
\* malformed (JSON without a key that the loop reads)
FileStates ==
  {<<"ok", "ok", "ok">>}
  \cup {[k \in 1..3 |-> IF k = j THEN f ELSE "ok"] :
          j \in 1..3, f \in {"missing", "unreadable", "malformed"}}

\* another call directory than id
OtherCall(id) == (id % MaxCalls) + 1

\* what the loop can find in call directory id
CallDirs(id, th) ==
  {[st |-> "dir", id |-> id,
    customer |-> [st |-> "ok", json |-> write_transcript(id, "customer", cs, th)],
    store |-> [st |-> "ok", json |-> write_transcript(ac, "store", ss, th)],
    timestamp |-> "ok", had_conversation |-> h] :
     cs \in ChannelSegments, ss \in ChannelSegments,
     ac \in {id, OtherCall(id)}, h \in BOOLEAN}
  \cup
  {[st |-> "dir", id |-> id,
    customer |-> [st |-> f[1], json |-> write_transcript(id, "customer", <<>>, th)],
    store |-> [st |-> f[2], json |-> write_transcript(id, "store", <<>>, th)],
    timestamp |-> f[3], had_conversation |-> h] :
     f \in FileStates \ {<<"ok", "ok", "ok">>}, h \in BOOLEAN}

\* line 390: one of the three files does not exist
MissingInput(d) == "missing" \in {d.customer.st, d.store.st, d.timestamp}

\* line 396: not self.overwrite and out_json.exists()
UpToDate(d, ow) == ~ow /\ d.had_conversation

UnreadableNever(d) == FALSE

\* lines 399-405: json.loads raises for one of the three files
Unreadable(d) == "unreadable" \in {d.customer.st, d.store.st, d.timestamp}

\* the three ways in which the loop leaves a call with continue
Skipped(d, ow) == MissingInput(d) \/ UpToDate(d, ow) \/ Unreadable(d)

\* lines 412 and 432-433: tr[key] or timestamp["datetime_utc"] raises
\* KeyError, outside the try of lines 399-405
RaisesKeyError(d) == "malformed" \in {d.customer.st, d.store.st, d.timestamp}

\* lines 411-416: the segments of one transcript with their channel
Tagged(tr) ==
  [k \in 1..Len(tr.segments) |->
     [start |-> Float(tr.segments[k].start), end |-> Float(tr.segments[k].end),
      text |-> tr.segments[k].text, channel |-> tr.channel]]

ChannelRankReversed(ch) == IF ch = "customer" THEN 2 ELSE 1

\* the order of the channel names as strings
ChannelRank(ch) == IF ch = "customer" THEN 1 ELSE 2

\* line 418: the sort key (start, end, channel), compared as tuples
ConvKeyLeq(a, b) ==
  \/ a.start < b.start
  \/ /\ a.start = b.start
     /\ \/ a.end < b.end
        \/ a.end = b.end /\ ChannelRank(a.channel) <= ChannelRank(b.channel)

ConvInsert(sorted, x) ==
  LET pos == Cardinality({j \in 1..Len(sorted) : ConvKeyLeq(sorted[j], x)})
  IN SubSeq(sorted, 1, pos) \o <<x>> \o SubSeq(sorted, pos + 1, Len(sorted))

RECURSIVE SortConversation(_)
SortConversation(s) ==
  IF s = <<>> THEN <<>>
  ELSE ConvInsert(SortConversation(SubSeq(s, 1, Len(s) - 1)), s[Len(s)])

\* line 419: f'{t["channel"]}: {t["text"]}'
Line(t) == <<t.channel, ":", " ">> \o t.text

\* "\n".join(lines)
RECURSIVE JoinLines(_)
JoinLines(lines) ==
  IF lines = <<>> THEN <<>>
  ELSE IF Len(lines) = 1 THEN lines[1]
  ELSE lines[1] \o <<"\n">> \o JoinLines(Tail(lines))

\* str.strip() of a text that can hold newlines
RECURSIVE StripText(_)
StripText(t) ==
  IF t = <<>> THEN <<>>
  ELSE IF Head(t) \in {" ", "\n"} THEN StripText(Tail(t))
  ELSE IF t[Len(t)] \in {" ", "\n"} THEN StripText(SubSeq(t, 1, Len(t) - 1))
  ELSE t

\* lines 407-437: the payload of conversation.json
Conversation(d) ==
  LET segments_with_channel ==
        SortConversation(Tagged(d.customer.json) \o Tagged(d.store.json))
  IN [st |-> "written",
      call_id |-> d.id,
      conversation_text |->
        StripText(JoinLines([k \in 1..Len(segments_with_channel) |->
                               Line(segments_with_channel[k])])),
      segments_with_channel |-> segments_with_channel]

PostInit ==
  /\ PoolIdle
  /\ XferIdle
  /\ MergeIdle
  /\ PipeIdle
  /\ overwrite \in BOOLEAN
  /\ merge_segments_s \in PostThresholds
  /\ n_calls \in 0..MaxCalls
  /\ post_i = 0
  /\ call = NoCall
  /\ conversation = NoConversation
  /\ out_txt = <<>>
  /\ written = <<>>
  /\ post_pc = "loop"

\* lines 386-442: one turn of the loop over the call directories
PostCall ==
  /\ post_pc = "loop"
  /\ post_i < n_calls
  /\ \E d \in CallDirs(post_i + 1, merge_segments_s) :
       /\ call' = d
       /\ IF Skipped(d, overwrite) \/ RaisesKeyError(d)
            THEN /\ conversation' = NoConversation
                 /\ out_txt' = <<>>
                 /\ UNCHANGED written
            ELSE /\ conversation' = Conversation(d)
                 /\ out_txt' = conversation'.conversation_text \o <<"\n">>
                 /\ written' = Append(written, d.id)
       /\ post_pc' = IF ~Skipped(d, overwrite) /\ RaisesKeyError(d)
                        THEN "raised" ELSE "loop"
  /\ post_i' = post_i + 1
  /\ UNCHANGED <<overwrite, merge_segments_s, n_calls>>
  /\ UNCHANGED <<poolVars, xferVars, textVars, pipeVars>>

\* lines 444-445: the loop is over, written is returned
PostDone ==
  /\ post_pc = "loop"
  /\ post_i = n_calls
  /\ post_pc' = "done"
  /\ UNCHANGED <<overwrite, merge_segments_s, n_calls, post_i, call,
                 conversation, out_txt, written>>
  /\ UNCHANGED <<poolVars, xferVars, textVars, pipeVars>>

PostNext ==
  \/ PostCall
  \/ PostDone

SpecPost == PostInit /\ [][PostNext]_vars

\* the last call directory was read whole: its three files exist and parse
ReadWhole ==
  call.st = "dir" /\ ~MissingInput(call) /\ ~Unreadable(call)

\* the output lists hold the last call directory
WrittenForCall ==
  conversation.st = "written" /\ written # <<>> /\ written[Len(written)] = call.id

(***************************************************************************)
(* C19: when the two transcripts read for a call name different calls, no  *)
(* conversation is written for that call.                                  *)
(***************************************************************************)
C19_MismatchedCallSkipped ==
  (ReadWhole /\ call.customer.json.audio_call # call.store.json.audio_call)
    => ~WrittenForCall

\* a merged segment of a channel, as a conversation segment
TaggedMerged(tr) ==
  [k \in 1..Len(tr.merged_segments) |->
     [start |-> tr.merged_segments[k].start, end |-> tr.merged_segments[k].end,
      text |-> tr.merged_segments[k].text, channel |-> tr.channel]]

(***************************************************************************)
(* C20: with a gap threshold set on the pipeline, the segments of every    *)
(* conversation written are the two channels' merged segment lists,        *)
(* interleaved by (start, end, channel).                                   *)
(***************************************************************************)
C20_ConsumesMergedSegments ==
  (WrittenForCall /\ merge_segments_s # None) =>
    conversation.segments_with_channel =
      SortConversation(TaggedMerged(call.customer.json)
                         \o TaggedMerged(call.store.json))

\* how often x occurs in the list q
Occurrences(q, x) == Cardinality({k \in 1..Len(q) : q[k] = x})

\* the segments of both channels of the last call, each with its channel
ChannelInputs == Tagged(call.customer.json) \o Tagged(call.store.json)

\* (start, end, channel) of a is not behind that of b
NotBehind(a, b) ==
  \/ a.start < b.start
  \/ a.start = b.start /\ a.end < b.end
  \/ a.start = b.start /\ a.end = b.end
       /\ (a.channel = b.channel \/ a.channel = "customer")

(***************************************************************************)
(* C21: the segments of a conversation written are the segments of the two *)
(* channels, each once with its own text and its channel's label, in       *)
(* ascending order of (start, end, label).                                 *)
(***************************************************************************)
C21_SortedPermutation ==
  WrittenForCall =>
    LET out == conversation.segments_with_channel
    IN /\ Len(out) = Len(ChannelInputs)
       /\ \A k \in 1..Len(out) :
            Occurrences(out, out[k]) = Occurrences(ChannelInputs, out[k])
       /\ \A a, b \in 1..Len(out) : a < b => NotBehind(out[a], out[b])

\* both channels speak in the same second and the store speaks alone before
\* the customer does: the tie goes to the customer, the earlier start to
\* the store
C21_Witness ==
  /\ WrittenForCall
  /\ \E k \in 1..(Len(conversation.segments_with_channel) - 1) :
       LET a == conversation.segments_with_channel[k]
           b == conversation.segments_with_channel[k + 1]
       IN \/ a.start = b.start /\ a.channel = "customer" /\ b.channel = "store"
  /\ \E k \in 1..(Len(conversation.segments_with_channel) - 1) :
       LET a == conversation.segments_with_channel[k]
           b == conversation.segments_with_channel[k + 1]
       IN a.start < b.start /\ a.channel = "store" /\ b.channel = "customer"

\* str.splitlines() of a text whose lines end with "\n"
RECURSIVE SplitLines(_)
SplitLines(t) ==
  IF t = <<>> THEN <<>>
  ELSE LET n == CHOOSE k \in 1..(Len(t) + 1) :
                  /\ k = Len(t) + 1 \/ t[k] = "\n"
                  /\ \A j \in 1..(k - 1) : t[j] # "\n"
       IN <<SubSeq(t, 1, n - 1)>> \o SplitLines(SubSeq(t, n + 1, Len(t)))

(***************************************************************************)
(* C22: the lines of conversation.txt are, one for one, "channel: text" of *)
(* the segments of the conversation written, none when there is no         *)
(* segment.                                                                *)
(***************************************************************************)
C22_TextIsProjection ==
  WrittenForCall =>
    SplitLines(out_txt) =
      [k \in 1..Len(conversation.segments_with_channel) |->
         Line(conversation.segments_with_channel[k])]

\* the last call had a missing or an unreadable file
FaultyInput ==
  /\ call.st = "dir"
  /\ {call.customer.st, call.store.st, call.timestamp}
       \cap {"missing", "unreadable"} # {}

(***************************************************************************)
(* C23: a call with a missing or unreadable customer.json, store.json or   *)
(* timestamp.json gets no output and does not end the loop: the loop goes  *)
(* on to the next call directory and ends only behind the last one.        *)
(***************************************************************************)
C23_FaultyCallSkipped ==
  /\ FaultyInput =>
       /\ conversation.st = "none"
       /\ out_txt = <<>>
       /\ written = <<>> \/ written[Len(written)] # call.id
       /\ post_pc \in {"loop", "done"}
  /\ post_pc = "done" => post_i = n_calls

\* with overwrite set, the first call was left out and the second written
C23_Witness ==
  /\ overwrite
  /\ post_i = 2
  /\ written = <<2>>
  /\ WrittenForCall

(***************************************************************************)
(* C24: no content of a call's input files ends the merge stage: the loop  *)
(* over the call directories raises nothing and reaches every directory.   *)
(***************************************************************************)
C24_ItemFailureNeverAborts ==
  /\ post_pc # "raised"
  /\ post_pc \in {"done", "raised"} => post_i = n_calls

(***************************************************************************)
(* WhisperTranscribe.run                                                   *)
(*                                                                         *)
(* A recording has one call directory with customer.wav and store.wav, a   *)
(* transcript for each, timestamp.json and the conversation.  A file is    *)
(* "none", "old" (there before the run), "new" (written by the run) or     *)
(* "partial" (left incomplete by a writer that failed or was killed).      *)
(* The split commands run in a SubprocessPool, which gives one result for  *)
(* each command; each is one step here.  A run can be interrupted at any   *)
(* point, and the program can be run again on what the last run left.      *)
(***************************************************************************)
Recs == 1..MaxRecs

Chans == {"customer", "store"}

Targets == Recs \X Chans

\* the parameters of __init__, lines 25-33
InitParams ==
  {"input_root", "output_root", "overwrite", "model_name", "language",
   "batch_size"}

\* the keyword arguments of main.py, lines 92-106
MainKwargs ==
  {"input_root", "output_root", "model_name", "language", "batch_size",
   "num_workers", "force_preprocess", "force_transcribe",
   "force_postprocess", "initial_prompt", "hotwords", "merge_segments_s",
   "vad_min_silence_duration_ms"}

\* a call that names parameters of __init__ only
DirectKwargs == {"input_root", "output_root", "overwrite"}

\* a call with a keyword that is no parameter raises TypeError
RaisesTypeError(kw) == ~(kw \subseteq InitParams)

\* what a recording can have from earlier runs: transcripts of channel
\* files that exist, a conversation only where all it is made of exists
PriorStates ==
  {[wav |-> [c \in Chans |-> IF c \in W THEN "old" ELSE "none"],
    transcript |-> [c \in Chans |-> IF c \in T THEN "old" ELSE "none"],
    timestamp_file |-> ts,
    conv |-> cv] :
     W \in SUBSET Chans, T \in SUBSET Chans, ts \in {"none", "old"},
     cv \in {"none", "old"}}

ConsistentPrior(x) ==
  /\ \A c \in Chans : x.transcript[c] = "old" => x.wav[c] = "old"
  /\ x.conv = "old" =>
       /\ x.timestamp_file = "old"
       /\ \A c \in Chans : x.transcript[c] = "old"

\* the output directory of a recording that was never processed
NoOutputs ==
  [wav |-> [c \in Chans |-> "none"],
   transcript |-> [c \in Chans |-> "none"],
   timestamp_file |-> "none",
   conv |-> "none"]

\* the force flags a configuration of main.py can have; a caller that has
\* none passes overwrite
Forces(kw) ==
  IF kw = MainKwargs
    THEN [{"preprocess", "transcribe", "postprocess"} -> BOOLEAN]
    ELSE {[st \in {"preprocess", "transcribe", "postprocess"} |-> FALSE]}

Overwrites(kw) == IF kw = MainKwargs THEN {FALSE} ELSE BOOLEAN

NeedsSplitAlways(ow, w) == TRUE

\* build_commands, line 110: no command when both outputs exist, unless
\* overwrite is set
NeedsSplit(ow, w) == ~(~ow /\ w["customer"] # "none" /\ w["store"] # "none")

\* how a run of ffmpeg can end
Outcomes == {"ok", "failed", "failed_partial"}

\* ffmpeg with -n exits without writing when an output exists; otherwise it
\* writes both outputs when it succeeds, and when it fails it had written
\* nothing or a part
FfmpegWrites(ow, w, outcome) ==
  IF ~(ow \/ \A c \in Chans : w[c] = "none") \/ outcome = "failed" THEN w
  ELSE IF outcome = "ok" THEN [c \in Chans |-> "new"]
  ELSE [c \in Chans |-> "partial"]

\* transcribe_outputs, lines 223-226
IsTarget(ow, w, t) == w # "none" /\ ~(t # "none" /\ ~ow)

ProgressOnlyOnSuccess(n, outcome) == IF outcome = "exc" THEN n ELSE n + 1

\* lines 251-252: finally: pbar.update(1)
Progress(n, outcome) == n + 1

\* json.loads of a file that was not written to its end raises
Readable(f) == f \in {"old", "new"}

\* postprocess_transcripts, lines 390-405, for files the pipeline wrote:
\* a missing file, an existing conversation, or a file that does not parse
MergeSkips(ow, tr, ts, cv) ==
  \/ tr["customer"] = "none" \/ tr["store"] = "none" \/ ts = "none"
  \/ ~ow /\ cv # "none"
  \/ ~Readable(tr["customer"]) \/ ~Readable(tr["store"]) \/ ~Readable(ts)

\* a file a run wrote is, for the next run, a file that was there before
Aged(f) == IF f = "new" THEN "old" ELSE f

LoadedByWorker(t) == t

\* transcribe_outputs, line 231: the thread that calls _load_pipeline for
\* the transcription of target t is the one that runs transcribe_outputs;
\* _transcribe_file gets the handle as an argument
LoadedBy(t) == "main"

\* _load_pipeline, lines 178-183: the test and, when there is no pipeline,
\* its construction
LoadPipeline(th) ==
  /\ checked_by' = checked_by \cup {th}
  /\ pipeline_obj' = "loaded"
  /\ n_init' = IF pipeline_obj = "none" THEN n_init + 1 ELSE n_init

\* a run of the program, whatever the earlier runs left
PipeStart ==
  /\ PoolIdle
  /\ XferIdle
  /\ MergeIdle
  /\ merge_segments_s = None
  /\ n_calls = 0
  /\ post_i = 0
  /\ call = NoCall
  /\ conversation = NoConversation
  /\ out_txt = <<>>
  /\ written = <<>>
  /\ post_pc = "idle"
  /\ kwargs \in {MainKwargs, DirectKwargs}
  /\ force \in Forces(kwargs)
  /\ overwrite \in Overwrites(kwargs)
  /\ wav = [r \in Recs |-> prior[r].wav]
  /\ transcript = [r \in Recs |-> prior[r].transcript]
  /\ timestamp_file = [r \in Recs |-> prior[r].timestamp_file]
  /\ conv = [r \in Recs |-> prior[r].conv]
  /\ commands = {}
  /\ split_left = {}
  /\ fut = [t \in Targets |-> "none"]
  /\ failed = <<>>
  /\ pbar_t = 0
  /\ merge_k = 0
  /\ split_n = [r \in Recs |-> 0]
  /\ tr_n = [t \in Targets |-> 0]
  /\ merge_n = [r \in Recs |-> 0]
  /\ pipe_pc = "construct"
  /\ pipeline_obj = "none"
  /\ n_init = 0
  /\ checked_by = {}
  /\ pipe_runs = 1
  /\ ever_forced = overwrite

\* one run over an output directory left by runs that came to their end
PipeInit ==
  /\ prior \in [Recs -> {x \in PriorStates : ConsistentPrior(x)}]
  /\ PipeStart

\* the first run, over recordings that were never processed
PipeRunsInit ==
  /\ prior = [r \in Recs |-> NoOutputs]
  /\ PipeStart

\* main.py, lines 92-107: WhisperTranscribe(...) with the keywords given
PipeConstruct ==
  /\ pipe_pc = "construct"
  /\ pipe_pc' = IF RaisesTypeError(kwargs) THEN "type_error" ELSE "build"
  /\ UNCHANGED <<kwargs, force, ever_forced, prior, wav, transcript, timestamp_file, conv,
                 commands, split_left, fut, failed, pbar_t, merge_k, split_n,
                 tr_n, merge_n, pipeline_obj, n_init, checked_by, pipe_runs>>
  /\ UNCHANGED <<poolVars, xferVars, textVars, postVars>>

\* build_commands, lines 104-113, and preprocess_audio, lines 117-120
PipeBuildCommands ==
  /\ pipe_pc = "build"
  /\ commands' = {r \in Recs : NeedsSplit(overwrite, wav[r])}
  /\ split_left' = commands'
  /\ pipe_pc' = IF commands' = {} THEN "targets" ELSE "split"
  /\ UNCHANGED <<kwargs, force, ever_forced, prior, wav, transcript, timestamp_file, conv,
                 fut, failed, pbar_t, merge_k, split_n, tr_n, merge_n,
                 pipeline_obj, n_init, checked_by, pipe_runs>>
  /\ UNCHANGED <<poolVars, xferVars, textVars, postVars>>

\* preprocess_audio, line 129: the pool runs the command of one recording
PipeSplit(r) ==
  /\ pipe_pc = "split"
  /\ r \in split_left
  /\ \E outcome \in Outcomes :
       wav' = [wav EXCEPT ![r] = FfmpegWrites(overwrite, wav[r], outcome)]
  /\ split_left' = split_left \ {r}
  /\ split_n' = [split_n EXCEPT ![r] = @ + 1]
  /\ UNCHANGED <<kwargs, force, ever_forced, prior, transcript, timestamp_file, conv,
                 commands, fut, failed, pbar_t, merge_k, tr_n, merge_n,
                 pipe_pc, pipeline_obj, n_init, checked_by, pipe_runs>>
  /\ UNCHANGED <<poolVars, xferVars, textVars, postVars>>

\* preprocess_audio, lines 131-143: timestamp.json for every recording
PipeSplitEnd ==
  /\ pipe_pc = "split"
  /\ split_left = {}
  /\ timestamp_file' = [r \in Recs |-> "new"]
  /\ pipe_pc' = "targets"
  /\ UNCHANGED <<kwargs, force, ever_forced, prior, wav, transcript, conv, commands,
                 split_left, fut, failed, pbar_t, merge_k, split_n, tr_n,
                 merge_n, pipeline_obj, n_init, checked_by, pipe_runs>>
  /\ UNCHANGED <<poolVars, xferVars, textVars, postVars>>

\* transcribe_outputs, lines 220-229: the targets
PipeTargets ==
  /\ pipe_pc = "targets"
  /\ fut' = [t \in Targets |->
               IF IsTarget(overwrite, wav[t[1]][t[2]], transcript[t[1]][t[2]])
                 THEN "target" ELSE "none"]
  /\ failed' = <<>>
  /\ pbar_t' = 0
  /\ pipe_pc' = IF \A t \in Targets : fut'[t] = "none"
                  THEN "merge" ELSE "load"
  /\ UNCHANGED <<kwargs, force, ever_forced, prior, wav, transcript, timestamp_file, conv,
                 commands, split_left, merge_k, split_n, tr_n, merge_n,
                 pipeline_obj, n_init, checked_by, pipe_runs>>
  /\ UNCHANGED <<poolVars, xferVars, textVars, postVars>>

\* transcribe_outputs, line 231: pipeline = self._load_pipeline()
PipeLoadPipeline ==
  /\ pipe_pc = "load"
  /\ IF \E t \in Targets : LoadedBy(t) = "main"
       THEN LoadPipeline("main")
       ELSE UNCHANGED <<pipeline_obj, n_init, checked_by>>
  /\ pipe_pc' = "submit"
  /\ UNCHANGED <<kwargs, force, ever_forced, prior, wav, transcript, timestamp_file, conv,
                 commands, split_left, fut, failed, pbar_t, merge_k, split_n,
                 tr_n, merge_n, pipe_runs>>
  /\ UNCHANGED <<poolVars, xferVars, textVars, postVars>>

\* transcribe_outputs, lines 235-244: one executor.submit for each target
PipeSubmit ==
  /\ pipe_pc = "submit"
  /\ fut' = [t \in Targets |-> IF fut[t] = "target" THEN "pending" ELSE "none"]
  /\ pipe_pc' = "transcribe"
  /\ UNCHANGED <<kwargs, force, ever_forced, prior, wav, transcript, timestamp_file, conv,
                 commands, split_left, failed, pbar_t, merge_k, split_n, tr_n,
                 merge_n, pipeline_obj, n_init, checked_by, pipe_runs>>
  /\ UNCHANGED <<poolVars, xferVars, textVars, postVars>>

\* _transcribe_file, lines 204-216, in a thread of the executor: it writes
\* the transcript or raises
WorkerTranscribes(t) ==
  /\ pipe_pc = "transcribe"
  /\ fut[t] = "pending"
  /\ \E ok \in BOOLEAN :
       /\ fut' = [fut EXCEPT ![t] = IF ok THEN "ok" ELSE "exc"]
       /\ transcript' = IF ok THEN [transcript EXCEPT ![t[1]][t[2]] = "new"]
                        ELSE transcript
  /\ tr_n' = [tr_n EXCEPT ![t] = @ + 1]
  /\ IF LoadedBy(t) = "main"
       THEN UNCHANGED <<pipeline_obj, n_init, checked_by>>
       ELSE LoadPipeline(LoadedBy(t))
  /\ UNCHANGED <<kwargs, force, ever_forced, prior, wav, timestamp_file, conv, commands,
                 split_left, failed, pbar_t, merge_k, split_n, merge_n,
                 pipe_pc, pipe_runs>>
  /\ UNCHANGED <<poolVars, xferVars, textVars, postVars>>

\* transcribe_outputs, lines 245-252: as_completed gives a finished future
CollectFuture(t) ==
  /\ pipe_pc = "transcribe"
  /\ fut[t] \in {"ok", "exc"}
  /\ fut' = [fut EXCEPT ![t] = IF fut[t] = "ok" THEN "ok_seen" ELSE "exc_seen"]
  /\ failed' = IF fut[t] = "exc" THEN Append(failed, t) ELSE failed
  /\ pbar_t' = Progress(pbar_t, fut[t])
  /\ UNCHANGED <<kwargs, force, ever_forced, prior, wav, transcript, timestamp_file, conv,
                 commands, split_left, merge_k, split_n, tr_n, merge_n,
                 pipe_pc, pipeline_obj, n_init, checked_by, pipe_runs>>
  /\ UNCHANGED <<poolVars, xferVars, textVars, postVars>>

\* transcribe_outputs, lines 254-258: every future was seen; the function
\* returns
PipeTranscribeEnd ==
  /\ pipe_pc = "transcribe"
  /\ \A t \in Targets : fut[t] \in {"none", "ok_seen", "exc_seen"}
  /\ pipe_pc' = "merge"
  /\ UNCHANGED <<kwargs, force, ever_forced, prior, wav, transcript, timestamp_file, conv,
                 commands, split_left, fut, failed, pbar_t, merge_k, split_n,
                 tr_n, merge_n, pipeline_obj, n_init, checked_by, pipe_runs>>
  /\ UNCHANGED <<poolVars, xferVars, textVars, postVars>>

\* postprocess_transcripts, lines 386-442: one call directory
PipeMerge ==
  /\ pipe_pc = "merge"
  /\ merge_k < MaxRecs
  /\ LET r == merge_k + 1
     IN IF MergeSkips(overwrite, transcript[r], timestamp_file[r], conv[r])
          THEN UNCHANGED <<conv, merge_n>>
          ELSE /\ conv' = [conv EXCEPT ![r] = "new"]
               /\ merge_n' = [merge_n EXCEPT ![r] = @ + 1]
  /\ merge_k' = merge_k + 1
  /\ UNCHANGED <<kwargs, force, ever_forced, prior, wav, transcript, timestamp_file,
                 commands, split_left, fut, failed, pbar_t, split_n, tr_n,
                 pipe_pc, pipeline_obj, n_init, checked_by, pipe_runs>>
  /\ UNCHANGED <<poolVars, xferVars, textVars, postVars>>

\* run, line 451: postprocess_transcripts has returned
PipeDone ==
  /\ pipe_pc = "merge"
  /\ merge_k = MaxRecs
  /\ pipe_pc' = "done"
  /\ UNCHANGED <<kwargs, force, ever_forced, prior, wav, transcript, timestamp_file, conv,
                 commands, split_left, fut, failed, pbar_t, merge_k, split_n,
                 tr_n, merge_n, pipeline_obj, n_init, checked_by, pipe_runs>>
  /\ UNCHANGED <<poolVars, xferVars, textVars, postVars>>

\* the positions of a run of run()
InRun == {"build", "split", "targets", "load", "submit", "transcribe", "merge"}

\* the run is interrupted (KeyboardInterrupt, the process is killed).  The
\* pool kills the ffmpeg processes in flight (subprocess_pool.py, lines
\* 93-102), which leaves what they had written so far; a transcript that
\* is being written (line 370) is left where the write was.
PipeInterrupt ==
  /\ pipe_pc \in InRun
  /\ \E S \in SUBSET split_left :
       wav' = [r \in Recs |->
                 IF pipe_pc = "split" /\ r \in S
                   THEN FfmpegWrites(overwrite, wav[r], "failed_partial")
                   ELSE wav[r]]
  /\ \E T \in SUBSET {t \in Targets : fut[t] = "pending"} :
       transcript' = [r \in Recs |-> [c \in Chans |->
                        IF pipe_pc = "transcribe" /\ <<r, c>> \in T
                          THEN "partial" ELSE transcript[r][c]]]
  /\ pipe_pc' = "interrupted"
  /\ UNCHANGED <<kwargs, force, ever_forced, prior, timestamp_file, conv, commands,
                 split_left, fut, failed, pbar_t, merge_k, split_n, tr_n,
                 merge_n, pipeline_obj, n_init, checked_by, pipe_runs>>
  /\ UNCHANGED <<poolVars, xferVars, textVars, postVars>>

\* the program is run again on the same directories
PipeRunAgain ==
  /\ pipe_pc \in {"done", "interrupted", "type_error"}
  /\ pipe_runs < MaxRuns
  /\ pipe_runs' = pipe_runs + 1
  /\ kwargs' \in {MainKwargs, DirectKwargs}
  /\ force' \in Forces(kwargs')
  /\ overwrite' \in Overwrites(kwargs')
  /\ ever_forced' = (ever_forced \/ overwrite')
  /\ wav' = [r \in Recs |-> [c \in Chans |-> Aged(wav[r][c])]]
  /\ transcript' = [r \in Recs |-> [c \in Chans |-> Aged(transcript[r][c])]]
  /\ timestamp_file' = [r \in Recs |-> Aged(timestamp_file[r])]
  /\ conv' = [r \in Recs |-> Aged(conv[r])]
  /\ prior' = [r \in Recs |->
                 [wav |-> wav'[r], transcript |-> transcript'[r],
                  timestamp_file |-> timestamp_file'[r], conv |-> conv'[r]]]
  /\ commands' = {}
  /\ split_left' = {}
  /\ fut' = [t \in Targets |-> "none"]
  /\ failed' = <<>>
  /\ pbar_t' = 0
  /\ merge_k' = 0
  /\ split_n' = [r \in Recs |-> 0]
  /\ tr_n' = [t \in Targets |-> 0]
  /\ merge_n' = [r \in Recs |-> 0]
  /\ pipeline_obj' = "none"
  /\ n_init' = 0
  /\ checked_by' = {}
  /\ pipe_pc' = "construct"
  /\ UNCHANGED <<merge_segments_s, n_calls, post_i, call, conversation,
                 out_txt, written, post_pc>>
  /\ UNCHANGED <<poolVars, xferVars, textVars>>

\* the steps of one run
PipeNext ==
  \/ PipeConstruct
  \/ PipeBuildCommands
  \/ \E r \in Recs : PipeSplit(r)
  \/ PipeSplitEnd
  \/ PipeTargets
  \/ PipeLoadPipeline
  \/ PipeSubmit
  \/ \E t \in Targets : WorkerTranscribes(t)
  \/ \E t \in Targets : CollectFuture(t)
  \/ PipeTranscribeEnd
  \/ PipeMerge
  \/ PipeDone

SpecPipe == PipeInit /\ [][PipeNext]_vars

\* runs that can be interrupted and followed by other runs
PipeRunsNext ==
  \/ PipeNext
  \/ PipeInterrupt
  \/ PipeRunAgain

SpecPipeRuns == PipeRunsInit /\ [][PipeRunsNext]_vars

\* the stages of run() that have returned
StageOver(stage) ==
  CASE stage = "preprocess" ->
         pipe_pc \in {"targets", "load", "submit", "transcribe", "merge", "done"}
    [] stage = "transcribe" -> pipe_pc \in {"merge", "done"}
    [] stage = "postprocess" -> pipe_pc = "done"

HadSplit(r) == \A c \in Chans : prior[r].wav[c] = "old"

C25_WitnessUnforced ==
  /\ pipe_pc = "done"
  /\ ~overwrite
  /\ \E r \in Recs :
       /\ HadSplit(r)
       /\ prior[r].transcript = [customer |-> "old", store |-> "none"]
       /\ tr_n[<<r, "store">>] = 1
       /\ tr_n[<<r, "customer">>] = 0

\* the stages a force flag of main.py would force under a forward cascade
CascadeForced(stage) ==
  CASE stage = "preprocess" -> force["preprocess"]
    [] stage = "transcribe" -> force["preprocess"] \/ force["transcribe"]
    [] stage = "postprocess" ->
         force["preprocess"] \/ force["transcribe"] \/ force["postprocess"]

RunOver == pipe_pc \in {"done", "type_error"}

\* C26: when main's run is over, a stage that is forced, by its own flag
\* or by the flag of an earlier stage, has processed again every item that
\* had an output, and a stage that is not forced has processed none of them.
C26_ForwardCascade ==
  (kwargs = MainKwargs /\ RunOver) =>
    /\ \A r \in Recs :
         HadSplit(r) =>
           split_n[r] = (IF CascadeForced("preprocess") THEN 1 ELSE 0)
    /\ \A t \in Targets :
         prior[t[1]].transcript[t[2]] = "old" =>
           tr_n[t] = (IF CascadeForced("transcribe") THEN 1 ELSE 0)
    /\ \A r \in Recs :
         prior[r].conv = "old" =>
           merge_n[r] = (IF CascadeForced("postprocess") THEN 1 ELSE 0)

TargetSet == {t \in Targets : fut[t] # "none"}

RECURSIVE SeqToSet(_)
SeqToSet(q) == IF q = <<>> THEN {} ELSE {Head(q)} \cup SeqToSet(Tail(q))

\* C27: no file is transcribed twice, and once transcribe_outputs has
\* returned, every target was transcribed once, the progress count is the
\* number of targets, and the failure list holds, once each, the paths of
\* the targets whose transcription raised, whichever they are.
C27_FailuresRecorded ==
  /\ \A t \in Targets : tr_n[t] <= 1
  /\ StageOver("transcribe") =>
       /\ \A t \in TargetSet : tr_n[t] = 1
       /\ pbar_t = Cardinality(TargetSet)
       /\ SeqToSet(failed) = {t \in Targets : fut[t] = "exc_seen"}
       /\ Len(failed) = Cardinality(SeqToSet(failed))

\* both channel files of a recording failed and transcribe_outputs returned
C27_Witness ==
  /\ pipe_pc = "merge"
  /\ Cardinality(TargetSet) = 2
  /\ Len(failed) = 2
  /\ pbar_t = 2

(***************************************************************************)
(* Transfer: the ways out of the copy loop                                 *)
(***************************************************************************)
InCopyLoop == {"read", "write"}

\* the finally clause of lines 129-134 is about to run
AtFinally == {"close", "close_bpe", "close_exc"}

\* transfer() waits for the processes: lines 136-137, or the Popen contexts
\* when an exception leaves the with block
Waiting == {"wait", "unwind_bpe", "unwind_exc"}

\* C28: when the write to the consumer's input has raised BrokenPipeError,
\* the producer runs no more from the moment the error is raised again, so
\* neither wait on the way out can block; the run then fails, and nothing
\* is promoted to the destination.
C28_BrokenPipeKillsProducer ==
  /\ [](xfer_pc \in {"close_bpe", "unwind_bpe"} =>
          prod_st # "running" /\ cons_st # "running")
  /\ [][xfer_pc = "close_bpe" => xfer_pc' \in {"close_bpe", "unwind_bpe"}]_vars
  /\ [][xfer_pc = "unwind_bpe" =>
          /\ xfer_pc' \in {"unwind_bpe", "failed"}
          /\ dest' = dest
          /\ visited' = visited /\ visited = {}]_vars

\* the consumer died while the producer still ran; the producer was killed
\* and the run failed
C28_Witness ==
  /\ xfer_pc = "failed"
  /\ prod_st = "killed"
  /\ cons_st = "failed"
  /\ stdin_closed
  /\ dest = dest0

\* C29: the copy loop is left only towards the finally clause, with or
\* without an exception, and whenever transfer() waits for a process the
\* consumer's input is closed.
C29_StdinClosedBeforeWait ==
  /\ [](xfer_pc \in Waiting => stdin_closed)
  /\ [](xfer_pc \in InCopyLoop => ~stdin_closed)
  /\ [][(xfer_pc \in InCopyLoop /\ xfer_pc' \notin InCopyLoop)
          => (xfer_pc' \in AtFinally)]_vars
  /\ [][(xfer_pc \in AtFinally /\ xfer_pc' # xfer_pc)
          => (xfer_pc' \in Waiting /\ stdin_closed')]_vars

\* an error other than a broken pipe left the loop: the input is closed
\* while the producer still runs and transfer() waits
C29_Witness ==
  /\ xfer_pc = "unwind_exc"
  /\ stdin_closed
  /\ prod_st = "running"

\* C30: the step that ends the waits after a copy loop without error is
\* taken when both processes have ended; it goes on to finalize exactly
\* when both statuses are 0, and otherwise fails with an error that carries
\* the status and the captured stderr of a side whose status is not 0.
C30_BothMustExitZero ==
  [][xfer_pc = "wait" /\ xfer_pc' # "wait" =>
       /\ prod_st # "running" /\ cons_st # "running"
       /\ xfer_pc' \in {"finalize", "failed"}
       /\ xfer_pc' = "finalize" <=>
            WaitRc(prod_st) = 0 /\ WaitRc(cons_st) = 0
       /\ xfer_pc' = "finalize" => transfer_error' = NoError
       /\ xfer_pc' = "failed" =>
            \/ /\ transfer_error'.stderr = "remote_err"
               /\ transfer_error'.rc = WaitRc(prod_st)
               /\ WaitRc(prod_st) # 0
            \/ /\ transfer_error'.stderr = "local_err"
               /\ transfer_error'.rc = WaitRc(cons_st)
               /\ WaitRc(cons_st) # 0]_vars

\* the producer exited with 0 and the local tar did not: the error carries
\* the local side's output
C30_Witness ==
  /\ xfer_pc = "failed"
  /\ prod_st = "exited"
  /\ cons_st = "failed"
  /\ transfer_error.stderr = "local_err"

\* only the remote side failed: the error carries the remote side's output
C30_WitnessRemote ==
  /\ xfer_pc = "failed"
  /\ prod_st = "failed"
  /\ cons_st = "exited"
  /\ transfer_error.stderr = "remote_err"

(***************************************************************************)
(* Transfer: the relay of the archive                                      *)
(***************************************************************************)
\* the archive the producer of this run writes
Archive == Stream(Archived(queue_paths_rel, remote))

PoolLiveInit ==
  /\ MergeIdle
  /\ PostIdle
  /\ PipeIdle
  /\ XferIdle
  /\ cmds \in UNION {[1..n -> LiveCmds] : n \in 0..MaxJobs}
  /\ workers_arg \in 1..MaxWorkers
  /\ max_workers = ClampWorkers(workers_arg)
  /\ capture = TRUE
  /\ i = 0
  /\ cmd = "true"
  /\ proc = 0
  /\ running = <<>>
  /\ finished_proc = 0
  /\ scan_k = 0
  /\ results = <<>>
  /\ pbar_n = 0
  /\ exc = FALSE
  /\ pool_pc = "loop"
  /\ procs = [p \in Procs |-> NoProc]
  /\ hist = <<>>

\* the steps of the thread of run() when nothing is raised
PoolStep ==
  \/ PoolLoop
  \/ PoolFill
  \/ PoolStart
  \/ PoolInsert
  \/ PoolPoll
  \/ PoolSleep
  \/ PoolReap
  \/ PoolFinally

SpecPoolLive ==
  /\ PoolLiveInit
  /\ [][PoolNext]_vars
  /\ WF_vars(PoolStep)
  /\ \A p \in Procs : WF_vars(ProcExit(p))

\* every command of the batch is one that terminates
AllTerminate == \A k \in 1..Len(cmds) : Terminates(cmds[k], capture)

\* run() returned the results of the whole batch
Returned ==
  /\ pool_pc = "done"
  /\ i = Len(cmds)
  /\ Len(results) = Len(cmds)
  /\ running = <<>>

\* C32: run() sleeps only after a scan in which no job in flight had
\* terminated; and when every command of the batch terminates, then, unless
\* an exception is raised in run(), every command was started and reaped
\* and run() has returned at some time.
C32_ReturnsWhenJobsTerminate ==
  /\ [](pool_pc = "sleep" => finished_proc = 0)
  /\ (AllTerminate => <>(Returned \/ exc))

\* a full batch of terminating jobs, more than the ceiling, was run to its
\* end
C32_Witness ==
  /\ Returned
  /\ AllTerminate
  /\ Len(cmds) = MaxJobs
  /\ max_workers < MaxJobs

\* the commands of the batch that do not terminate
Hung == {k \in 1..Len(cmds) : ~Terminates(cmds[k], capture)}

\* the commands that have a result
Collected == {k \in 1..Len(cmds) : \E n \in 1..Len(hist) : hist[n] = <<"reap", k>>}

\* C33: when one command of the batch never terminates and the ceiling is
\* at least 2, run() never returns, the job that hangs is the only one in
\* flight that stays, and, unless an exception is raised in run(), every
\* other command was started and has its result at some time.
C33_HungJobBlocksOneSlot ==
  (Cardinality(Hung) = 1 /\ max_workers >= 2) =>
    /\ [](pool_pc # "done")
    /\ [](Collected \cap Hung = {})
    /\ <>(exc \/ (i = Len(cmds) /\ Collected = (1..Len(cmds)) \ Hung
                  /\ RunningProcs = Hung))

\* the first of a full batch hangs, the others have their results, and
\* run() sleeps with the one job in flight
C33_Witness ==
  /\ Hung = {1}
  /\ max_workers >= 2
  /\ Len(cmds) = MaxJobs
  /\ Collected = 2..MaxJobs
  /\ RunningProcs = {1}
  /\ pool_pc = "sleep"

\* the futures that were submitted to the executor
Submitted == {t \in Targets : fut[t] \notin {"none", "target"}}

\* C34: an instance constructs its pipeline at most once; whenever a task
\* has been submitted to the executor the pipeline had been constructed
\* before; and the only thread that ever tests self._pipeline is the one
\* that runs transcribe_outputs.
C34_PipelineLoadedBeforeFanOut ==
  /\ n_init <= 1
  /\ checked_by \subseteq {"main"}
  /\ Submitted # {} => pipeline_obj = "loaded" /\ n_init = 1 /\ checked_by = {"main"}
  /\ \A t \in Targets : tr_n[t] > 0 => t \in Submitted

\* the two channel files of a recording have been transcribed by workers,
\* neither result collected yet, with the one pipeline
C34_Witness ==
  /\ pipe_pc = "transcribe"
  /\ \E r \in Recs : \A c \in Chans : fut[<<r, c>>] \in {"ok", "exc"}
  /\ n_init = 1

\* C38: when preprocess_audio has returned, every recording whose two
\* channel files exist has a timestamp.json.
C38_TimestampForEverySplit ==
  StageOver("preprocess") =>
    \A r \in Recs :
      (\A c \in Chans : wav[r][c] # "none") => timestamp_file[r] # "none"

\* C39: when the second or a later one of runs none of which was forced
\* has ended, every channel file and every transcript that exists is a
\* whole one: what an earlier run left incomplete has been made again.
C39_OutputImpliesSuccess ==
  (pipe_pc = "done" /\ pipe_runs > 1 /\ ~ever_forced) =>
    \A r \in Recs : \A c \in Chans :
      /\ wav[r][c] # "none" => wav[r][c] # "partial"
      /\ transcript[r][c] # "none" => transcript[r][c] # "partial"

(***************************************************************************)
(* SubprocessPool.run: the books it keeps                                  *)
(***************************************************************************)
\* the jobs started so far
StartedProcs == {p \in Procs : procs[p].st # "none"}

\* the number of results the history has for the job p
ReapCount(p) == Cardinality({n \in 1..Len(hist) : hist[n] = <<"reap", p>>})

\* the start events of the history, in order
StartsOf(h) == SelectSeq(h, LAMBDA e : e[1] = "start")

\* C35: at the top of the loop of run(), the commands taken are the jobs
\* started, and as many as the results and the jobs in flight together;
\* the jobs were started in the order of the commands; a job started is in
\* flight and has no result, or is not in flight and has one result; and
\* the progress count is the number of results.
C35_Bookkeeping ==
  pool_pc = "loop" =>
    /\ StartedProcs = 1..i
    /\ i = Len(results) + Len(running)
    /\ StartsOf(hist) = [k \in 1..i |-> <<"start", k>>]
    /\ \A p \in 1..i : procs[p].cmd = cmds[p]
    /\ \A p \in 1..i :
         IF p \in RunningProcs THEN ReapCount(p) = 0 ELSE ReapCount(p) = 1
    /\ Len(running) = Cardinality(RunningProcs)
    /\ pbar_n = Len(results)

\* at the top of the loop with the whole batch started, a result collected
\* and a job in flight
C35_Witness ==
  /\ pool_pc = "loop"
  /\ i = MaxJobs
  /\ Len(results) >= 1
  /\ Len(running) >= 1

\* every command of the batch terminates once its output is taken
AllTerminateWhenDrained ==
  \A k \in 1..Len(cmds) : TerminatesWhenDrained(cmds[k], capture)

\* C36: with the streams captured, when every command of the batch
\* terminates once its output is taken, then, unless an exception is raised
\* in run(), every command was started and reaped and run() has returned at
\* some time.
C36_CapturedOutputNeverBlocks ==
  (capture /\ AllTerminateWhenDrained) => <>(Returned \/ exc)

\* the launch of a command has raised
LaunchFailed == \E n \in 1..Len(hist) : hist[n][1] = "launch_failed"

\* C37: once the launch of command i has raised, an exception is on its way
\* out of run(): there is no job for that command and none for a later one,
\* no job is started and no result collected afterwards, run() never
\* returns its results, and when it is left no job in flight is running.
C37_LaunchFailurePropagates ==
  LaunchFailed =>
    /\ exc
    /\ pool_pc \in {"finally", "raised"}
    /\ \A p \in i..MaxJobs : procs[p].st = "none"
    /\ \A n \in 1..Len(hist) :
         hist[n][1] = "launch_failed" =>
           \A m \in (n + 1)..Len(hist) : hist[m][1] = "exit"
    /\ pool_pc = "raised" => \A p \in RunningProcs : procs[p].st # "running"

\* the launch of the last command failed with a result collected and a job
\* in flight, which was killed
C37_Witness ==
  /\ LaunchFailed
  /\ pool_pc = "raised"
  /\ Len(results) >= 1
  /\ \E p \in RunningProcs : procs[p].st = "killed"

====
